---- MODULE Spec2Model ----
(***************************************************************************)
(* Kraken i18n: the translation catalog (extension host, JSON files) and   *)
(* the batch translation orchestrator (webview).                           *)
(*                                                                         *)
(* Every JavaScript string is a tuple of one-character strings, so that    *)
(* trim, split on ".", path joining, lower-casing and localeCompare are    *)
(* computed and not assumed.                                               *)
(***************************************************************************)
EXTENDS Integers, Sequences, FiniteSets, TLC

(***************************************************************************)
(* Strings                                                                 *)
(***************************************************************************)
Empty == <<>>

\* The value JavaScript reads where an object has no such property.
Undefined == <<"undefined">>

\* x || ''
OrEmpty(x) == IF x = Undefined THEN Empty ELSE x

RECURSIVE TrimLeft(_)
TrimLeft(s) ==
  IF s = Empty THEN Empty
  ELSE IF Head(s) = " " THEN TrimLeft(Tail(s)) ELSE s

RECURSIVE TrimRight(_)
TrimRight(s) ==
  IF s = Empty THEN Empty
  ELSE IF s[Len(s)] = " " THEN TrimRight(SubSeq(s, 1, Len(s) - 1)) ELSE s

\* String.prototype.trim
Trim(s) == TrimRight(TrimLeft(s))

\* !text.trim()
IsBlank(s) == Trim(s) = Empty

\* key.split('.'): the parts between the dots, at least one part.
RECURSIVE SplitDots(_, _, _)
SplitDots(s, cur, acc) ==
  IF s = Empty THEN Append(acc, cur)
  ELSE IF Head(s) = "." THEN SplitDots(Tail(s), Empty, Append(acc, cur))
  ELSE SplitDots(Tail(s), Append(cur, Head(s)), acc)

Split(s) == SplitDots(s, Empty, <<>>)

\* prefix ? `${prefix}.${key}` : key
JoinPath(prefix, key) ==
  IF prefix # Empty THEN prefix \o <<".">> \o key ELSE key

(***************************************************************************)
(* Collation: String.prototype.localeCompare on the characters used here.  *)
(* Primary strength (letters without case) decides first over the whole    *)
(* string, then case (lower before upper).                                 *)
(***************************************************************************)
LowerOf(c) ==
  CASE c = "A" -> "a" [] c = "B" -> "b" [] c = "C" -> "c" [] c = "D" -> "d"
    [] c = "E" -> "e" [] c = "F" -> "f" [] c = "G" -> "g" [] c = "H" -> "h"
    [] c = "I" -> "i" [] c = "J" -> "j" [] c = "K" -> "k" [] c = "L" -> "l"
    [] c = "M" -> "m" [] c = "N" -> "n" [] c = "O" -> "o" [] c = "P" -> "p"
    [] c = "Q" -> "q" [] c = "R" -> "r" [] c = "S" -> "s" [] c = "T" -> "t"
    [] c = "U" -> "u" [] c = "V" -> "v" [] c = "W" -> "w" [] c = "X" -> "x"
    [] c = "Y" -> "y" [] c = "Z" -> "z"
    [] OTHER -> c

IsUpper(c) == LowerOf(c) # c

\* String.prototype.toLowerCase
ToLower(s) == [i \in 1..Len(s) |-> LowerOf(s[i])]

CollationOrder ==
  <<" ", "-", ".", "0",
    "a", "b", "c", "d", "e", "f", "g", "h", "i", "j", "k", "l", "m",
    "n", "o", "p", "q", "r", "s", "t", "u", "v", "w", "x", "y", "z">>

CharRank(c) ==
  LET l == LowerOf(c)
  IN IF \E i \in 1..Len(CollationOrder) : CollationOrder[i] = l
     THEN CHOOSE i \in 1..Len(CollationOrder) : CollationOrder[i] = l
     ELSE Len(CollationOrder) + 1

RECURSIVE PrimaryCompare(_, _)
PrimaryCompare(a, b) ==
  IF a = Empty /\ b = Empty THEN 0
  ELSE IF a = Empty THEN -1
  ELSE IF b = Empty THEN 1
  ELSE IF CharRank(Head(a)) < CharRank(Head(b)) THEN -1
  ELSE IF CharRank(Head(a)) > CharRank(Head(b)) THEN 1
  ELSE PrimaryCompare(Tail(a), Tail(b))

RECURSIVE CaseCompare(_, _)
CaseCompare(a, b) ==
  IF a = Empty \/ b = Empty THEN 0
  ELSE IF IsUpper(Head(a)) = IsUpper(Head(b)) THEN CaseCompare(Tail(a), Tail(b))
  ELSE IF IsUpper(Head(b)) THEN -1 ELSE 1

LocaleCompare(a, b) ==
  IF PrimaryCompare(a, b) # 0 THEN PrimaryCompare(a, b) ELSE CaseCompare(a, b)

\* Array.prototype.sort of the distinct elements S with comparator cmp(a, b) < 0.
RECURSIVE SortKeys(_)
SortKeys(S) ==
  IF S = {} THEN <<>>
  ELSE LET m == CHOOSE x \in S : \A y \in S : LocaleCompare(y, x) >= 0
       IN <<m>> \o SortKeys(S \ {m})

(***************************************************************************)
(* Maps with a varying domain (JavaScript records keyed by strings)        *)
(***************************************************************************)
EmptyMap == [x \in {} |-> Empty]

Put(f, k, v) == [x \in (DOMAIN f) \cup {k} |-> IF x = k THEN v ELSE f[x]]

Remove(f, k) == [x \in (DOMAIN f) \ {k} |-> f[x]]

\* f[k], Undefined when f has no property k
Get(f, k) == IF k \in DOMAIN f THEN f[k] ELSE Undefined

Range(q) == {q[i] : i \in 1..Len(q)}

(***************************************************************************)
(* JSON values.  A node is a string leaf, an object or an array (its       *)
(* properties in insertion order), or another primitive (number, boolean,  *)
(* null).  A file holds a node, text that does not parse ("bad"), or does  *)
(* not exist ("none").                                                     *)
(***************************************************************************)
StrNode(s) == [t |-> "str", v |-> s, kids |-> <<>>]
ObjNode(es) == [t |-> "obj", v |-> Empty, kids |-> es]
ArrNode(es) == [t |-> "arr", v |-> Empty, kids |-> es]
PrimNode == [t |-> "prim", v |-> Empty, kids |-> <<>>]
UndefNode == [t |-> "undef", v |-> Empty, kids |-> <<>>]
BadFile == [t |-> "bad", v |-> Empty, kids |-> <<>>]
NoFile == [t |-> "none", v |-> Empty, kids |-> <<>>]
EmptyObj == ObjNode(<<>>)
Prop(k, n) == [k |-> k, n |-> n]

\* typeof x === 'object' && x !== null
IsObjectLike(n) == n.t \in {"obj", "arr"}

HasProp(es, k) == \E i \in 1..Len(es) : es[i].k = k

\* obj[k]
GetProp(es, k) ==
  IF HasProp(es, k) THEN es[CHOOSE i \in 1..Len(es) : es[i].k = k].n
  ELSE UndefNode

\* obj[k] = n: an existing property keeps its place, a new one is appended
SetProp(es, k, n) ==
  IF HasProp(es, k)
  THEN [i \in 1..Len(es) |-> IF es[i].k = k THEN Prop(k, n) ELSE es[i]]
  ELSE Append(es, Prop(k, n))

\* An array index as a property name.
IsIndexKey(k) == k \in {<<"0">>}

(***************************************************************************)
(* Key Path Codec (extension host)                                         *)
(***************************************************************************)
RECURSIVE flattenObject(_, _, _)
RECURSIVE flattenEntries(_, _, _)
flattenEntries(es, prefix, out) ==
  IF es = <<>> THEN out
  ELSE LET key == Head(es).k
           entry == Head(es).n
           fullKey == JoinPath(prefix, key)
           out1 == IF entry.t = "str" THEN Put(out, fullKey, entry.v)
                   ELSE IF entry.t = "obj" THEN flattenObject(entry, fullKey, out)
                   ELSE out
       IN flattenEntries(Tail(es), prefix, out1)

flattenObject(value, prefix, out) ==
  IF ~IsObjectLike(value) THEN out
  ELSE flattenEntries(value.kids, prefix, out)

\* setNestedValue on the parts of the key; the target is mutated in place.
RECURSIVE setNestedParts(_, _, _)
setNestedParts(target, parts, value) ==
  IF Len(parts) = 1
  THEN [target EXCEPT !.kids = SetProp(target.kids, Head(parts), StrNode(value))]
  ELSE LET part == Head(parts)
           next == GetProp(target.kids, part)
           \* !next || typeof next !== 'object' || Array.isArray(next)
           child == IF next.t # "obj" THEN EmptyObj ELSE next
       IN [target EXCEPT !.kids =
             SetProp(target.kids, part, setNestedParts(child, Tail(parts), value))]

setNestedValue(target, key, value) == setNestedParts(target, Split(key), value)

RECURSIVE getNestedParts(_, _)
getNestedParts(current, parts) ==
  IF parts = <<>> THEN current
  ELSE IF ~IsObjectLike(current) THEN UndefNode
  ELSE LET next == GetProp(current.kids, Head(parts))
       IN IF next = UndefNode THEN UndefNode
          ELSE getNestedParts(next, Tail(parts))

getNestedValue(target, key) == getNestedParts(target, Split(key))

(***************************************************************************)
(* Files of the catalog directory                                          *)
(***************************************************************************)
\* readJsonFile on the content of the file
readJsonFile(content) == IF IsObjectLike(content) THEN content ELSE EmptyObj

\* What JSON.stringify keeps of the data: an array keeps its elements only.
writeJsonFile(data) ==
  IF data.t = "arr"
  THEN ArrNode(SelectSeq(data.kids, LAMBDA e : IsIndexKey(e.k)))
  ELSE data

\* fs.readdirSync(dir).filter(file => file.endsWith('.json')), as language codes
JsonFiles(fs) == {code \in DOMAIN fs : fs[code] # NoFile}

(***************************************************************************)
(* Language Registry (extension host)                                      *)
(***************************************************************************)
EN == <<"e", "n">>
FR == <<"f", "r">>
DE == <<"d", "e">>

StartsWith(s, p) == Len(s) >= Len(p) /\ SubSeq(s, 1, Len(p)) = p

POPULAR_LANGUAGE_ORDER ==
  << <<"e", "n">>, <<"e", "s">>, <<"p", "t">>, <<"f", "r">>, <<"d", "e">>,
     <<"i", "t">>, <<"j", "a">>, <<"z", "h">>, <<"r", "u">>, <<"k", "o">> >>

\* Array.prototype.indexOf: -1 when absent
IndexOf(q, x) ==
  IF \E i \in 1..Len(q) : q[i] = x
  THEN (CHOOSE i \in 1..Len(q) : q[i] = x) - 1
  ELSE -1

normalizeLanguageCode(code) ==
  LET lower == ToLower(code)
  IN IF lower = <<"z", "n">> \/ StartsWith(lower, <<"z", "h">>) THEN <<"z", "h">>
     ELSE IF StartsWith(lower, <<"p", "t">>) THEN <<"p", "t">>
     ELSE lower

\* compareLanguageCodes without the comparison of the codes as written
compareLanguageCodesNormalized(a, b) ==
  LET aKey == normalizeLanguageCode(a)
      bKey == normalizeLanguageCode(b)
      aRank == IndexOf(POPULAR_LANGUAGE_ORDER, aKey)
      bRank == IndexOf(POPULAR_LANGUAGE_ORDER, bKey)
  IN IF aRank # -1 /\ bRank # -1 THEN aRank - bRank
     ELSE IF aRank # -1 THEN -1
     ELSE IF bRank # -1 THEN 1
     ELSE LocaleCompare(aKey, bKey)

compareLanguageCodes(a, b) ==
  LET aKey == normalizeLanguageCode(a)
      bKey == normalizeLanguageCode(b)
      aRank == IndexOf(POPULAR_LANGUAGE_ORDER, aKey)
      bRank == IndexOf(POPULAR_LANGUAGE_ORDER, bKey)
  IN IF aRank # -1 /\ bRank # -1
     THEN IF aRank # bRank THEN aRank - bRank ELSE LocaleCompare(a, b)
     ELSE IF aRank # -1 THEN -1
     ELSE IF bRank # -1 THEN 1
     ELSE IF aKey # bKey THEN LocaleCompare(aKey, bKey)
     ELSE LocaleCompare(a, b)

\* files.map(basename).sort(compareLanguageCodes)
RECURSIVE SortCodes(_)
SortCodes(S) ==
  IF S = {} THEN <<>>
  ELSE LET m == CHOOSE x \in S : \A y \in S : compareLanguageCodes(y, x) >= 0
       IN <<m>> \o SortCodes(S \ {m})

(***************************************************************************)
(* Token usage report                                                      *)
(***************************************************************************)
EMPTY_TOKEN_REPORT ==
  [totalTokens |-> 0, promptTokens |-> 0, completionTokens |-> 0,
   requests |-> 0, perModel |-> [x \in {} |-> 0], perLanguage |-> [x \in {} |-> 0]]

\* (map[k] || 0) + n
AddTo(map, k, n) == Put(map, k, (IF k \in DOMAIN map THEN map[k] ELSE 0) + n)

\* applyTokenUsage overwriting the count of the language instead of adding to it
applyTokenUsageSetsLanguage(report, usage) ==
  [totalTokens |-> report.totalTokens + usage.totalTokens,
   promptTokens |-> report.promptTokens + usage.promptTokens,
   completionTokens |-> report.completionTokens + usage.completionTokens,
   requests |-> report.requests + 1,
   perModel |-> AddTo(report.perModel, usage.model, usage.totalTokens),
   perLanguage |-> Put(report.perLanguage, usage.targetLangCode, usage.totalTokens)]

\* webview: the fold of one usage into the report held in React state
applyTokenUsage(report, usage) ==
  [totalTokens |-> report.totalTokens + usage.totalTokens,
   promptTokens |-> report.promptTokens + usage.promptTokens,
   completionTokens |-> report.completionTokens + usage.completionTokens,
   requests |-> report.requests + 1,
   perModel |-> AddTo(report.perModel, usage.model, usage.totalTokens),
   perLanguage |-> AddTo(report.perLanguage, usage.targetLangCode, usage.totalTokens)]

\* updateTokenReport keeping only the last usage of each model and language
updateTokenReportLatest(report, usage) ==
  [totalTokens |-> report.totalTokens + usage.totalTokens,
   promptTokens |-> report.promptTokens + usage.promptTokens,
   completionTokens |-> report.completionTokens + usage.completionTokens,
   requests |-> report.requests + 1,
   perModel |-> Put(report.perModel, usage.model, usage.totalTokens),
   perLanguage |-> Put(report.perLanguage, usage.targetLangCode, usage.totalTokens)]

\* host: the fold of one usage into the report kept in workspaceState
updateTokenReport(report, usage) ==
  [totalTokens |-> report.totalTokens + usage.totalTokens,
   promptTokens |-> report.promptTokens + usage.promptTokens,
   completionTokens |-> report.completionTokens + usage.completionTokens,
   requests |-> report.requests + 1,
   perModel |-> AddTo(report.perModel, usage.model, usage.totalTokens),
   perLanguage |-> AddTo(report.perLanguage, usage.targetLangCode, usage.totalTokens)]

(***************************************************************************)
(* Catalog Store (extension host).  fs maps every language code to the     *)
(* content of <code>.json; cfg is the polyglotManager configuration.       *)
(***************************************************************************)
\* perLangValues[code] of readI18nData
FlatOf(fs, code) == flattenObject(readJsonFile(fs[code]), Empty, EmptyMap)

\* the union of Object.keys(flattened) over the language files
AllKeys(fs, codes) == UNION {DOMAIN FlatOf(fs, code) : code \in codes}

\* the table with entries only for the languages that define the key
TableOfDefined(fs, keySet, codes) ==
  [key \in keySet |->
     [code \in {c \in codes : key \in DOMAIN FlatOf(fs, c)} |-> FlatOf(fs, code)[key]]]

\* values[key][code] = perLangValues[code]?.[key] ?? ''
TableOf(fs, keySet, codes) ==
  [key \in keySet |->
     [code \in codes |->
        IF key \in DOMAIN FlatOf(fs, code) THEN FlatOf(fs, code)[key] ELSE Empty]]

\* readI18nData returning the configured preference whatever the languages are
readI18nDataPreferring(fs, cfg, report) ==
  LET codes == JsonFiles(fs)
      keySet == AllKeys(fs, codes)
  IN [languages |-> SortCodes(codes), keys |-> SortKeys(keySet),
      values |-> TableOf(fs, keySet, codes),
      sourceLangCode |-> cfg.sourceLanguage,
      openaiApiKey |-> cfg.openaiApiKey, tokenReport |-> report,
      status |-> IF codes = {} THEN "emptyFolder" ELSE "ok"]

readI18nData(fs, cfg, report) ==
  LET codes == JsonFiles(fs)
      languageCodes == SortCodes(codes)
      keySet == AllKeys(fs, codes)
  IN IF codes = {}
     THEN [languages |-> <<>>, keys |-> <<>>, values |-> EmptyMap,
           sourceLangCode |-> cfg.sourceLanguage,
           openaiApiKey |-> cfg.openaiApiKey, tokenReport |-> report,
           status |-> "emptyFolder"]
     ELSE [languages |-> languageCodes, keys |-> SortKeys(keySet),
           values |-> TableOf(fs, keySet, codes),
           sourceLangCode |-> IF cfg.sourceLanguage \in codes
                              THEN cfg.sourceLanguage ELSE languageCodes[1],
           openaiApiKey |-> cfg.openaiApiKey, tokenReport |-> report,
           status |-> "ok"]

\* The seed document { app: { title: 'App Title' } }
SeedDocument ==
  ObjNode(<<Prop(<<"a", "p", "p">>,
                 ObjNode(<<Prop(<<"t", "i", "t", "l", "e">>,
                                StrNode(<<"A", "p", "p", " ", "T", "i", "t", "l", "e">>))>>))>>)

initializeI18n(fs, cfg) ==
  IF JsonFiles(fs) # {} THEN fs
  ELSE [fs EXCEPT ![cfg.sourceLanguage] = writeJsonFile(SeedDocument)]

updateTranslationValue(fs, langCode, key, value) ==
  [fs EXCEPT ![langCode] =
     writeJsonFile(setNestedValue(readJsonFile(fs[langCode]), key, value))]

\* One iteration of the loop of addTranslationKey, for the file of `code`.
AddKeyToFile(content, code, key, sourceLang, value) ==
  LET json == readJsonFile(content)
  IN IF getNestedValue(json, key) = UndefNode
     THEN writeJsonFile(setNestedValue(json, key,
                                       IF code = sourceLang THEN value ELSE Empty))
     ELSE content

addTranslationKey(fs, key, sourceLang, value) ==
  LET codes == JsonFiles(fs)
      targetCodes == codes \cup {sourceLang}
  IN [code \in DOMAIN fs |->
        IF code \in targetCodes
        THEN AddKeyToFile(fs[code], code, key, sourceLang, value)
        ELSE fs[code]]

\* addLanguageFile without the test for an existing file
addLanguageFileOverwriting(fs, langCode) ==
  [fs EXCEPT ![langCode] = writeJsonFile(EmptyObj)]

addLanguageFile(fs, langCode) ==
  IF fs[langCode] # NoFile THEN fs
  ELSE [fs EXCEPT ![langCode] = writeJsonFile(EmptyObj)]

(***************************************************************************)
(* Bounds of the model and the inputs it enumerates                        *)
(***************************************************************************)
\* provider requests of one session
MaxCalls == 2
\* catalog-changing user operations of one session
MaxOps == 1
\* user gestures of one session that change no catalog data (views, modals, typing)
MaxGestures == 4
\* jobs of one batch run
MaxJobs == 3
\* messages waiting between webview and host, in either direction
MaxQueue == 2

LangUniverse == {EN, FR, DE}
KeyA == <<"a">>
KeyB == <<"b">>
KeyInputs == {KeyA, <<"b", " ">>}
TextInputs == {<<"h">>, <<" ">>}
ProviderTexts == {<<"t">>, Empty}
ApiKeys == {Empty, <<"k">>}
ModelName == <<"m">>
TaskKinds == {"ta", "qa", "ed", "eb"}

\* { [k]: text }
Doc1(k, text) == ObjNode(<<Prop(k, StrNode(text))>>)
\* { [k1]: t1, [k2]: t2 }
Doc2(k1, t1, k2, t2) == ObjNode(<<Prop(k1, StrNode(t1)), Prop(k2, StrNode(t2))>>)

Dir(en, fr, de) ==
  [code \in LangUniverse |->
     IF code = EN THEN en ELSE IF code = FR THEN fr ELSE de]

\* no JSON file in the folder
DirEmpty == Dir(NoFile, NoFile, NoFile)
\* en.json {a:"h"}, fr.json {}: one cell to translate
DirOne == Dir(Doc1(KeyA, <<"h">>), EmptyObj, NoFile)
\* en.json {a:"h", b:"h"}, fr.json {a:"t"}, de.json {}: three cells to translate
DirThree ==
  Dir(Doc2(KeyA, <<"h">>, KeyB, <<"h">>), Doc1(KeyA, <<"t">>), EmptyObj)

SessionDirs == {DirEmpty, DirOne}

KeyN == <<"n">>
KeyAB == <<"a", ".", "b">>
\* en.json {a:" ", b:"h"}, fr.json {b:" "}, de.json {b:"t"}: blank source, blank target
DirBlanks ==
  Dir(Doc2(KeyA, <<" ">>, KeyB, <<"h">>), Doc1(KeyB, <<" ">>), Doc1(KeyB, <<"t">>))
\* en.json {a:"h"}, fr.json {a:"t"}: nothing to translate
DirFull == Dir(Doc1(KeyA, <<"h">>), Doc1(KeyA, <<"t">>), NoFile)
\* en.json {a:"h"}, fr.json {}, de.json {}
DirTwo == Dir(Doc1(KeyA, <<"h">>), EmptyObj, EmptyObj)

BatchDirs == {DirOne, DirTwo, DirThree, DirBlanks, DirFull}

\* en.json {a:{b:"h"}}, fr.json {a:"t"}, de.json is no JSON
DirNested ==
  Dir(ObjNode(<<Prop(KeyA, Doc1(KeyB, <<"h">>))>>), Doc1(KeyA, <<"t">>), BadFile)
\* en.json {"a.b":"h", b:1}, fr.json ["t"], de.json {a:["h"]}
DirOdd ==
  Dir(ObjNode(<<Prop(KeyAB, StrNode(<<"h">>)), Prop(KeyB, PrimNode)>>),
      ArrNode(<<Prop(<<"0">>, StrNode(<<"t">>))>>),
      ObjNode(<<Prop(KeyA, ArrNode(<<Prop(<<"0">>, StrNode(<<"h">>))>>))>>))
\* fr.json {b:"t", a:"t"} only
DirNoSource == Dir(NoFile, Doc2(KeyB, <<"t">>, KeyA, <<"t">>), NoFile)

LoadDirs == {DirEmpty, DirOne, DirThree, DirNested, DirOdd, DirNoSource}

(***************************************************************************)
(* State                                                                   *)
(***************************************************************************)
VARIABLES
  keys,             \* webview: key ids, in table order
  values,           \* webview: key id -> (language code -> text)
  languages,        \* webview: language codes, in registry order
  activeLangCodes,  \* webview
  sourceLangCode,   \* webview
  openAiApiKey,     \* webview
  tokenReport,      \* webview
  statusCode,       \* webview
  ui,               \* webview: view, editor and modal state
  saveTimers,       \* webview: "key:lang" -> value of the pending inline save
  tasks,            \* webview: the running invocation of each async handler
  toHost,           \* messages posted by the webview, not yet handled
  toWebview,        \* messages posted by the host, not yet handled
  files,            \* host: language code -> content of <code>.json
  config,           \* host: polyglotManager configuration
  hostReport,       \* host: workspaceState tokenReport
  sentUpdates,      \* history: the updateValue messages posted so far
  loaded,           \* history: the last readI18nData, with the files it read
  budget            \* bounds: operations and provider requests still allowed

catalogVars == <<keys, values, languages, activeLangCodes, sourceLangCode>>
webviewVars == <<catalogVars, openAiApiKey, tokenReport, statusCode, ui, saveTimers, tasks>>
hostVars == <<files, config, hostReport>>
vars == <<webviewVars, toHost, toWebview, hostVars, sentUpdates, loaded, budget>>

(***************************************************************************)
(* Webview: catalog table                                                  *)
(***************************************************************************)
\* values[keyId]?.[langCode] || ''
Cell(vals, keyId, langCode) ==
  IF keyId \in DOMAIN vals /\ langCode \in DOMAIN vals[keyId]
  THEN vals[keyId][langCode] ELSE Empty

\* { ...prev[keyId] }
Row(vals, keyId) == IF keyId \in DOMAIN vals THEN vals[keyId] ELSE EmptyMap

\* setValues(prev => ({ ...prev, [keyId]: { ...prev[keyId], [langCode]: newValue } }))
\* setValues without the spread of the row: the row keeps the new cell only
SetCellDroppingRow(vals, keyId, langCode, newValue) ==
  Put(vals, keyId, [l \in {langCode} |-> newValue])

SetCell(vals, keyId, langCode, newValue) ==
  Put(vals, keyId, Put(Row(vals, keyId), langCode, newValue))

\* languages.filter(l => activeLangCodes.includes(l.code))
activeLanguages ==
  SelectSeq(languages, LAMBDA l : l \in Range(activeLangCodes))

Job(keyId, sourceText, targetLangCode) ==
  [keyId |-> keyId, sourceText |-> sourceText, targetLangCode |-> targetLangCode]

\* JobsOfKey taking a whitespace-only target value for a translation
JobsOfKeyUntrimmed(key, vals, targets, source) ==
  LET sourceText == Cell(vals, key, source)
      missing == SelectSeq(targets, LAMBDA l : Cell(vals, key, l) = Empty)
  IN IF IsBlank(sourceText) THEN <<>>
     ELSE [i \in 1..Len(missing) |-> Job(key, sourceText, missing[i])]

\* the inner loop of collectTranslateAllJobs for one key
JobsOfKey(key, vals, targets, source) ==
  LET sourceText == Cell(vals, key, source)
      missing == SelectSeq(targets, LAMBDA l : IsBlank(Cell(vals, key, l)))
  IN IF IsBlank(sourceText) THEN <<>>
     ELSE [i \in 1..Len(missing) |-> Job(key, sourceText, missing[i])]

RECURSIVE JobsOfKeys(_, _, _, _)
JobsOfKeys(ks, vals, targets, source) ==
  IF ks = <<>> THEN <<>>
  ELSE JobsOfKey(Head(ks), vals, targets, source)
         \o JobsOfKeys(Tail(ks), vals, targets, source)

\* collectTranslateAllJobs without the test of the existing value
collectJobsOverwriting(ks, vals, langs, source) ==
  LET targets == SelectSeq(langs, LAMBDA l : l # source)
      JobsFor(key) ==
        IF IsBlank(Cell(vals, key, source)) THEN <<>>
        ELSE [i \in 1..Len(targets) |-> Job(key, Cell(vals, key, source), targets[i])]
      Concat[n \in 0..Len(ks)] ==
        IF n = 0 THEN <<>> ELSE Concat[n - 1] \o JobsFor(ks[n])
  IN Concat[Len(ks)]

collectTranslateAllJobs(ks, vals, langs, source) ==
  LET targets == SelectSeq(langs, LAMBDA l : l # source)
  IN IF Len(targets) = 0 THEN <<>> ELSE JobsOfKeys(ks, vals, targets, source)

\* translateAllEstimate.missingCount
translateAllEstimate ==
  Len(collectTranslateAllJobs(keys, values, activeLanguages, sourceLangCode))

\* Math.ceil(text.trim().length / 4), 0 for a blank text
estimateTokenCount(text) ==
  IF IsBlank(text) THEN 0 ELSE (Len(Trim(text)) + 3) \div 4

\* the length of buildToonPrompt(text, targetLang, sourceLang, context): the
\* seven lines of the system prompt and the quoted text, joined by newlines
PromptLength(text, targetLang, sourceLang, context) ==
  Len("TOON/1") + 1
  + Len("SRC:") + Len(sourceLang) + 1
  + Len("TGT:") + Len(targetLang) + 1
  + Len("RULES:KEEP_MD,KEEP_VARS,NO_QUOTES,NO_FENCES,NO_LABELS,NO_ECHO,NO_PREFIX") + 1
  + Len("OUT:TEXT_ONLY") + 1
  + Len("VARS:{{x}},{x},%{x},%s,%d,{0},${x}") + 1
  + (IF context # Empty THEN Len("CTX:") + Len(context) ELSE Len("CTX:-")) + 1
  + 3 + Len(text) + 3

\* estimateTokenCount(buildToonPrompt(...)): the prompt starts with TOON/1
\* and ends with a quote, so trimming leaves it whole
PromptTokens(text, targetLang, sourceLang, context) ==
  (PromptLength(text, targetLang, sourceLang, context) + 3) \div 4

\* the loop of translateAllEstimate over the jobs, with its sourceTokenCache;
\* a language's name is its code
RECURSIVE EstimateJobs(_, _, _)
EstimateJobs(jobs, cache, acc) ==
  IF jobs = <<>> THEN acc
  ELSE LET job == Head(jobs)
           sourceTokens == IF job.keyId \in DOMAIN cache THEN cache[job.keyId]
                           ELSE estimateTokenCount(job.sourceText)
       IN EstimateJobs(Tail(jobs), Put(cache, job.keyId, sourceTokens),
                       [acc EXCEPT !.promptTokens =
                                      @ + PromptTokens(job.sourceText, job.targetLangCode,
                                                       sourceLangCode, job.keyId),
                                   !.completionTokens = @ + sourceTokens])

\* translateAllEstimate: missingCount, promptTokens, completionTokens
translateAllEstimateTokens ==
  LET jobs == collectTranslateAllJobs(keys, values, activeLanguages, sourceLangCode)
  IN EstimateJobs(jobs, [x \in {} |-> 0],
                  [missingCount |-> Len(jobs), promptTokens |-> 0, completionTokens |-> 0])

\* Settings: the inner loop of pendingEstimate for one key, over allLanguages
RECURSIVE PendingOfLanguages(_, _, _)
PendingOfLanguages(key, langs, acc) ==
  IF langs = <<>> THEN acc
  ELSE LET lang == Head(langs)
           sourceText == Cell(values, key, sourceLangCode)
       IN IF lang = sourceLangCode \/ ~IsBlank(Cell(values, key, lang))
          THEN PendingOfLanguages(key, Tail(langs), acc)
          ELSE PendingOfLanguages(key, Tail(langs),
                 [missingCount |-> acc.missingCount + 1,
                  promptTokens |-> acc.promptTokens
                     + PromptTokens(sourceText, lang, sourceLangCode, key),
                  completionTokens |-> acc.completionTokens
                     + estimateTokenCount(sourceText)])

\* Settings: keys.forEach of pendingEstimate
RECURSIVE PendingOfKeys(_, _)
PendingOfKeys(ks, acc) ==
  IF ks = <<>> THEN acc
  ELSE IF IsBlank(Cell(values, Head(ks), sourceLangCode))
       THEN PendingOfKeys(Tail(ks), acc)
       ELSE PendingOfKeys(Tail(ks), PendingOfLanguages(Head(ks), languages, acc))

\* Settings: pendingEstimate, computed over allLanguages = languages
pendingEstimate ==
  PendingOfKeys(keys, [missingCount |-> 0, promptTokens |-> 0, completionTokens |-> 0])

(***************************************************************************)
(* Webview: messages to the host                                           *)
(***************************************************************************)
ReadyMsg == [type |-> "ready"]
InitI18nMsg == [type |-> "initI18n"]
UpdateValueMsg(key, lang, value) ==
  [type |-> "updateValue", key |-> key, lang |-> lang, value |-> value]
AddKeyMsg(key, sourceLang, value) ==
  [type |-> "addKey", key |-> key, sourceLang |-> sourceLang, value |-> value]
DeleteKeyMsg(key) == [type |-> "deleteKey", key |-> key]
AddLanguageMsg(lang) == [type |-> "addLanguage", lang |-> lang]
RecordTokenUsageMsg(usage) == [type |-> "recordTokenUsage", usage |-> usage]
UpdateConfigMsg(key, value) == [type |-> "updateConfig", key |-> key, value |-> value]

\* the usage the provider reports for one request
Usage(targetLangCode) ==
  [promptTokens |-> 1, completionTokens |-> 1, totalTokens |-> 2,
   model |-> ModelName, targetLangCode |-> targetLangCode]

\* the updateValue messages of a sequence of messages
UpdatesOf(msgs) == {msgs[i] : i \in {j \in 1..Len(msgs) : msgs[j].type = "updateValue"}}

(***************************************************************************)
(* Webview: adding keys                                                    *)
(***************************************************************************)
\* addKeyInternal without the test for an existing key
addKeyInternalUnchecked(ks, vals, source, keyName, initialValue) ==
  [ok |-> TRUE,
   keys |-> Append(ks, keyName),
   values |-> Put(vals, keyName, Put(Row(vals, keyName), source, initialValue)),
   msgs |-> <<AddKeyMsg(keyName, source, initialValue)>>]

addKeyInternal(ks, vals, source, keyName, initialValue) ==
  IF keyName \in Range(ks)
  THEN [ok |-> FALSE, keys |-> ks, values |-> vals, msgs |-> <<>>]
  ELSE [ok |-> TRUE,
        keys |-> Append(ks, keyName),
        values |-> Put(vals, keyName, Put(Row(vals, keyName), source, initialValue)),
        msgs |-> <<AddKeyMsg(keyName, source, initialValue)>>]

\* handleQuickAdd without the test of the API key
handleQuickAddUnguarded(ks, vals, langs, source, apiKey, keyName, sourceValue) ==
  LET trimmedKey == Trim(keyName)
      targets == SelectSeq(langs, LAMBDA l : l # source)
      added == addKeyInternal(ks, vals, source, trimmedKey, sourceValue)
      Refused(error) ==
        [result |-> error, keys |-> ks, values |-> vals, msgs |-> <<>>, jobs |-> <<>>]
      Added(result, jobs) ==
        [result |-> result, keys |-> added.keys, values |-> added.values,
         msgs |-> added.msgs, jobs |-> jobs]
  IN IF trimmedKey = Empty THEN Refused("keyRequired")
     ELSE IF ~added.ok THEN Refused("keyExists")
     ELSE IF IsBlank(sourceValue) \/ Len(targets) = 0 THEN Added("ok", <<>>)
     ELSE Added("run", [i \in 1..Len(targets) |-> Job(trimmedKey, sourceValue, targets[i])])

\* handleQuickAdd up to its first provider call: the result it returns, or
\* "run" with the jobs of its loop
handleQuickAdd(ks, vals, langs, source, apiKey, keyName, sourceValue) ==
  LET trimmedKey == Trim(keyName)
      targets == SelectSeq(langs, LAMBDA l : l # source)
      added == addKeyInternal(ks, vals, source, trimmedKey, sourceValue)
      Refused(error) ==
        [result |-> error, keys |-> ks, values |-> vals, msgs |-> <<>>, jobs |-> <<>>]
      Added(result, jobs) ==
        [result |-> result, keys |-> added.keys, values |-> added.values,
         msgs |-> added.msgs, jobs |-> jobs]
  IN IF trimmedKey = Empty THEN Refused("keyRequired")
     ELSE IF Len(targets) > 0 /\ apiKey = Empty THEN Refused("openAiKeyMissing")
     ELSE IF ~added.ok THEN Refused("keyExists")
     ELSE IF IsBlank(sourceValue) \/ Len(targets) = 0 THEN Added("ok", <<>>)
     ELSE Added("run", [i \in 1..Len(targets) |-> Job(trimmedKey, sourceValue, targets[i])])

\* handleTranslateAll up to its first provider call
handleTranslateAll(ks, vals, langs, source, apiKey) ==
  LET jobs == collectTranslateAllJobs(ks, vals, langs, source)
  IN IF apiKey = Empty THEN [result |-> "openAiKeyMissing", jobs |-> <<>>]
     ELSE IF Len(jobs) = 0 THEN [result |-> "noMissing", jobs |-> <<>>]
     ELSE [result |-> "run", jobs |-> jobs]

(***************************************************************************)
(* Webview: the invocations of the asynchronous handlers.  "ta" is         *)
(* handleTranslateAll, "qa" handleQuickAdd, "ed" the editor's              *)
(* handleAiTranslate, "eb" the editor's handleTranslateMissing.  A task    *)
(* keeps what the closure captured (jobs, apiKey) and the trace of what    *)
(* the invocation did.                                                     *)
(***************************************************************************)
Ev(e, i, d, t) == [e |-> e, i |-> i, d |-> d, t |-> t]

IdleTask ==
  [pc |-> "idle", jobs |-> <<>>, index |-> 0, done |-> 0, apiKey |-> Empty,
   result |-> "none", trace |-> <<>>, mounted |-> FALSE]

\* an invocation that returned before any provider call
Returned(result) == [IdleTask EXCEPT !.pc = "done", !.result = result, !.mounted = TRUE]

Running(task) == task.pc \in {"call", "sleep"}

\* translateText: throws when no key is given, else sends the request
translateText(apiKey) == IF apiKey = Empty THEN "throw" ELSE "request"

\* handleTranslateAll with the catch block going on to the next job
translateAllFailedContinues(t) ==
  LET reported == [t EXCEPT !.done = @ + 1,
                            !.trace = @ \o <<Ev("fail", t.index, 0, 0),
                                             Ev("progress", t.index, t.done + 1, Len(t.jobs))>>]
  IN IF t.index < Len(t.jobs)
     THEN [reported EXCEPT !.pc = "sleep",
                           !.trace = Append(@, Ev("sleep", t.index, 0, 0))]
     ELSE [reported EXCEPT !.pc = "done", !.result = "translationFailed"]

\* handleTranslateAll: catch { return error } finally { done += 1; onProgress }
translateAllFailed(t) ==
  [t EXCEPT !.pc = "done", !.result = "translationFailed", !.done = @ + 1,
            !.trace = @ \o <<Ev("fail", t.index, 0, 0),
                             Ev("progress", t.index, t.done + 1, Len(t.jobs))>>]

\* handleQuickAdd: catch { return error } finally { done += 1; onProgress }
quickAddFailed(t) ==
  [t EXCEPT !.pc = "done", !.result = "translationFailed", !.done = @ + 1,
            !.trace = @ \o <<Ev("fail", t.index, 0, 0),
                             Ev("progress", t.index, t.done + 1, Len(t.jobs))>>]

\* the editor's handlers with the catch block inside the loop over the targets
editorFailedContinues(t) ==
  IF t.index < Len(t.jobs)
  THEN [t EXCEPT !.pc = "call", !.index = @ + 1,
                 !.trace = @ \o <<Ev("fail", t.index, 0, 0),
                                  Ev("call", t.index + 1, 0, 0)>>]
  ELSE [t EXCEPT !.pc = "done", !.result = "ai",
                 !.trace = Append(@, Ev("fail", t.index, 0, 0))]

\* the editor's handlers: catch { setError(editor.error.ai) } finally { ... }
editorFailed(t) ==
  [t EXCEPT !.pc = "done", !.result = "ai",
            !.trace = Append(@, Ev("fail", t.index, 0, 0))]

Failed(kind, t) ==
  CASE kind = "ta" -> translateAllFailed(t)
    [] kind = "qa" -> quickAddFailed(t)
    [] OTHER -> editorFailed(t)

\* await translateText(...) for job i of the run
Issue(kind, t, i) ==
  IF translateText(t.apiKey) = "throw"
  THEN Failed(kind, [t EXCEPT !.index = i])
  ELSE [t EXCEPT !.pc = "call", !.index = i,
                 !.trace = Append(@, Ev("call", i, 0, 0))]

\* handleTranslateAll with the delay placed before the progress report
translateAllSucceededDelaysFirst(t) ==
  IF t.index < Len(t.jobs)
  THEN [t EXCEPT !.pc = "sleep", !.done = @ + 1,
                 !.trace = @ \o <<Ev("save", t.index, 0, 0),
                                  Ev("sleep", t.index, 0, 0),
                                  Ev("progress", t.index, t.done + 1, Len(t.jobs))>>]
  ELSE [t EXCEPT !.pc = "done", !.result = "ok", !.done = @ + 1,
                 !.trace = @ \o <<Ev("save", t.index, 0, 0),
                                  Ev("progress", t.index, t.done + 1, Len(t.jobs))>>]

\* handleTranslateAll returning { ok: true } after the first job that succeeds
translateAllSucceededReturnsEarly(t) ==
  [t EXCEPT !.pc = "done", !.result = "ok", !.done = @ + 1,
            !.trace = @ \o <<Ev("save", t.index, 0, 0),
                             Ev("progress", t.index, t.done + 1, Len(t.jobs))>>]

\* handleTranslateAll after translateText resolved and handleSave ran
translateAllSucceeded(t) ==
  LET reported == [t EXCEPT !.done = @ + 1,
                            !.trace = @ \o <<Ev("save", t.index, 0, 0),
                                             Ev("progress", t.index, t.done + 1, Len(t.jobs))>>]
  IN IF t.index < Len(t.jobs)
     THEN [reported EXCEPT !.pc = "sleep",
                           !.trace = Append(@, Ev("sleep", t.index, 0, 0))]
     ELSE [reported EXCEPT !.pc = "done", !.result = "ok"]

\* handleQuickAdd after translateText resolved and handleSave ran
quickAddSucceeded(t) ==
  LET reported == [t EXCEPT !.done = @ + 1,
                            !.trace = @ \o <<Ev("save", t.index, 0, 0),
                                             Ev("progress", t.index, t.done + 1, Len(t.jobs))>>]
  IN IF t.index < Len(t.jobs)
     THEN Issue("qa", reported, t.index + 1)
     ELSE [reported EXCEPT !.pc = "done", !.result = "ok"]

\* handleTranslateMissing after translateText resolved and onSave ran
translateMissingSucceeded(t) ==
  LET reported == [t EXCEPT !.done = @ + 1,
                            !.trace = @ \o <<Ev("save", t.index, 0, 0),
                                             Ev("progress", t.index, t.done + 1, Len(t.jobs))>>]
  IN IF t.index < Len(t.jobs)
     THEN Issue("eb", reported, t.index + 1)
     ELSE [reported EXCEPT !.pc = "done", !.result = "ok"]

\* handleAiTranslate after translateText resolved: setValue only
aiTranslateSucceeded(t) == [t EXCEPT !.pc = "done", !.result = "ok"]

Succeeded(kind, t) ==
  CASE kind = "ta" -> translateAllSucceeded(t)
    [] kind = "qa" -> quickAddSucceeded(t)
    [] kind = "eb" -> translateMissingSucceeded(t)
    [] OTHER -> aiTranslateSucceeded(t)

\* the first statements of a run: onProgress(0, n), then the first call
Started(kind, jobs, apiKey) ==
  Issue(kind,
        [IdleTask EXCEPT !.jobs = jobs, !.apiKey = apiKey, !.mounted = TRUE,
                         !.trace = IF kind = "ed" THEN <<>>
                                   ELSE <<Ev("progress", 0, 0, Len(jobs))>>],
        1)

InFlight == {kind \in TaskKinds : tasks[kind].pc = "call"}

(***************************************************************************)
(* Webview: views, modals and the editor                                   *)
(***************************************************************************)
InitialUi ==
  [currentView |-> "dashboard", editorKey |-> Empty, editorLang |-> Empty,
   value |-> Empty, edError |-> "none",
   isTranslating |-> FALSE, isBulkTranslating |-> FALSE,
   isModalOpen |-> FALSE, isQuickAddOpen |-> FALSE, isTranslateAllOpen |-> FALSE,
   qaSubmitting |-> FALSE, taSubmitting |-> FALSE,
   qaError |-> "none", taError |-> "none"]

\* the state a component loses when its view is left
Unmounted(u) ==
  CASE u.currentView = "list" ->
         [u EXCEPT !.isModalOpen = FALSE, !.isQuickAddOpen = FALSE,
                   !.isTranslateAllOpen = FALSE, !.qaSubmitting = FALSE,
                   !.taSubmitting = FALSE, !.qaError = "none", !.taError = "none"]
    [] u.currentView = "editor" ->
         [u EXCEPT !.value = Empty, !.edError = "none",
                   !.isTranslating = FALSE, !.isBulkTranslating = FALSE]
    [] OTHER -> u

\* the handlers whose component the view holds
OwnedBy(view) ==
  CASE view = "list" -> {"ta", "qa"}
    [] view = "editor" -> {"ed", "eb"}
    [] OTHER -> {}

\* setCurrentView(view), with the unmount of the view that is left
Show(u, view) ==
  IF view = u.currentView THEN u ELSE [Unmounted(u) EXCEPT !.currentView = view]

Orphaned(ts, u, view) ==
  [kind \in TaskKinds |->
     IF view # u.currentView /\ kind \in OwnedBy(u.currentView)
     THEN [ts[kind] EXCEPT !.mounted = FALSE] ELSE ts[kind]]

AnyModalOpen == ui.isModalOpen \/ ui.isQuickAddOpen \/ ui.isTranslateAllOpen

ListMounted == ui.currentView = "list"

\* App renders the editor only for a key id; the editor reads keyData.id
EditorMounted ==
  ui.currentView = "editor" /\ ui.editorKey # Empty /\ ui.editorKey \in Range(keys)

\* useEffect([keyData.id, targetLang, allValues]): the row of the open key
\* was replaced, so the text field is reset from it
RowReplaced(u, vals, keyId) ==
  IF u.currentView = "editor" /\ u.editorKey = keyId /\ keyId # Empty
  THEN [u EXCEPT !.value = Cell(vals, keyId, u.editorLang), !.edError = "none"]
  ELSE u

\* what the component of a run does when the run returns
Closed(u, kind, t) ==
  IF t.pc # "done" \/ ~t.mounted THEN u
  ELSE CASE kind = "ta" ->
              IF t.result = "ok"
              THEN [u EXCEPT !.taSubmitting = FALSE, !.isTranslateAllOpen = FALSE]
              ELSE [u EXCEPT !.taSubmitting = FALSE, !.taError = t.result]
         [] kind = "qa" ->
              IF t.result = "ok"
              THEN [u EXCEPT !.qaSubmitting = FALSE, !.isQuickAddOpen = FALSE]
              ELSE [u EXCEPT !.qaSubmitting = FALSE, !.qaError = t.result]
         [] kind = "ed" ->
              [u EXCEPT !.isTranslating = FALSE,
                        !.edError = IF t.result = "ok" THEN @ ELSE t.result]
         [] OTHER ->
              [u EXCEPT !.isBulkTranslating = FALSE,
                        !.edError = IF t.result = "ok" THEN @ ELSE t.result]

\* the editor's missingTargets
missingTargets ==
  LET selectable == IF ui.editorLang \in Range(activeLanguages) THEN activeLanguages
                    ELSE Append(activeLanguages, ui.editorLang)
      RawValue(l) == IF l = ui.editorLang THEN ui.value
                     ELSE Cell(values, ui.editorKey, l)
  IN SelectSeq(selectable, LAMBDA l : l # sourceLangCode /\ IsBlank(RawValue(l)))

\* the editor's sourceText
editorSourceText == Cell(values, ui.editorKey, sourceLangCode)

(***************************************************************************)
(* Webview actions                                                         *)
(***************************************************************************)
\* vscodeApi.postMessage for each of msgs
Post(msgs) ==
  /\ Len(toHost) + Len(msgs) <= MaxQueue
  /\ toHost' = toHost \o msgs
  /\ sentUpdates' = sentUpdates \cup UpdatesOf(msgs)

Spend(ops, calls) ==
  /\ budget.ops >= ops
  /\ budget.calls >= calls
  /\ budget' = [budget EXCEPT !.ops = @ - ops, !.calls = @ - calls]

Gesture ==
  /\ budget.gestures >= 1
  /\ budget' = [budget EXCEPT !.gestures = @ - 1]

\* NavItem.onClick and Dashboard.onNavigateToList
Navigate(view) ==
  /\ view # ui.currentView
  /\ ~AnyModalOpen
  /\ ui' = Show(ui, view)
  /\ tasks' = Orphaned(tasks, ui, view)
  /\ Gesture
  /\ UNCHANGED <<catalogVars, openAiApiKey, tokenReport, statusCode, saveTimers,
                 toHost, toWebview, hostVars, sentUpdates, loaded>>

handleEdit(keyId, langCode) ==
  /\ ListMounted /\ ~AnyModalOpen
  /\ keyId \in Range(keys)
  /\ langCode \in Range(activeLanguages)
  /\ ui' = [Show(ui, "editor") EXCEPT !.editorKey = keyId, !.editorLang = langCode,
                                      !.value = Cell(values, keyId, langCode)]
  /\ tasks' = Orphaned(tasks, ui, "editor")
  /\ Gesture
  /\ UNCHANGED <<catalogVars, openAiApiKey, tokenReport, statusCode, saveTimers,
                 toHost, toWebview, hostVars, sentUpdates, loaded>>

\* the editor's onCancel
EditorCancel ==
  /\ EditorMounted
  /\ ui' = Show(ui, "list")
  /\ tasks' = Orphaned(tasks, ui, "list")
  /\ Gesture
  /\ UNCHANGED <<catalogVars, openAiApiKey, tokenReport, statusCode, saveTimers,
                 toHost, toWebview, hostVars, sentUpdates, loaded>>

\* the editor's textarea onChange: setValue
EditorType(text) ==
  /\ EditorMounted
  /\ text # ui.value
  /\ ui' = [ui EXCEPT !.value = text]
  /\ Gesture
  /\ UNCHANGED <<catalogVars, openAiApiKey, tokenReport, statusCode, saveTimers, tasks,
                 toHost, toWebview, hostVars, sentUpdates, loaded>>

\* the editor's Save button: handleSave(keyData.id, targetLang, value)
EditorSave ==
  /\ EditorMounted
  /\ Spend(1, 0)
  /\ values' = SetCell(values, ui.editorKey, ui.editorLang, ui.value)
  /\ Post(<<UpdateValueMsg(ui.editorKey, ui.editorLang, ui.value)>>)
  /\ ui' = Show(ui, "list")
  /\ tasks' = Orphaned(tasks, ui, "list")
  /\ UNCHANGED <<keys, languages, activeLangCodes, sourceLangCode, openAiApiKey,
                 tokenReport, statusCode, saveTimers, toWebview, hostVars, loaded>>

handleEditorTargetChange(nextLang) ==
  /\ EditorMounted
  /\ nextLang \in Range(activeLanguages)
  /\ nextLang # ui.editorLang
  /\ Spend(1, 0)
  /\ values' = SetCell(values, ui.editorKey, ui.editorLang, ui.value)
  /\ Post(<<UpdateValueMsg(ui.editorKey, ui.editorLang, ui.value)>>)
  /\ ui' = [ui EXCEPT !.editorLang = nextLang,
                      !.value = Cell(values', ui.editorKey, nextLang),
                      !.edError = "none"]
  /\ UNCHANGED <<keys, languages, activeLangCodes, sourceLangCode, openAiApiKey,
                 tokenReport, statusCode, saveTimers, tasks, toWebview, hostVars, loaded>>

\* the editor's handleAiTranslate, up to its provider call
handleAiTranslate ==
  /\ EditorMounted
  /\ ~(ui.isTranslating \/ ui.isBulkTranslating)
  /\ editorSourceText # Empty
  /\ ~Running(tasks["ed"])
  /\ IF openAiApiKey = Empty
     THEN /\ ui' = [ui EXCEPT !.edError = "openAiKeyMissing"]
          /\ tasks' = [tasks EXCEPT !["ed"] = Returned("openAiKeyMissing")]
          /\ UNCHANGED budget
     ELSE LET t == Started("ed", <<Job(ui.editorKey, editorSourceText, ui.editorLang)>>,
                           openAiApiKey)
          IN /\ Spend(0, 1)
             /\ tasks' = [tasks EXCEPT !["ed"] = t]
             /\ ui' = Closed([ui EXCEPT !.isTranslating = TRUE, !.edError = "none"], "ed", t)
  /\ UNCHANGED <<catalogVars, openAiApiKey, tokenReport, statusCode, saveTimers,
                 toHost, toWebview, hostVars, sentUpdates, loaded>>

\* the editor's handleTranslateMissing, up to its first provider call
handleTranslateMissing ==
  /\ EditorMounted
  /\ ~(ui.isTranslating \/ ui.isBulkTranslating)
  /\ editorSourceText # Empty
  /\ Len(missingTargets) > 0
  /\ ~Running(tasks["eb"])
  /\ IF openAiApiKey = Empty
     THEN /\ ui' = [ui EXCEPT !.edError = "openAiKeyMissing"]
          /\ tasks' = [tasks EXCEPT !["eb"] = Returned("openAiKeyMissing")]
          /\ UNCHANGED budget
     ELSE LET jobs == [i \in 1..Len(missingTargets) |->
                         Job(ui.editorKey, editorSourceText, missingTargets[i])]
              t == Started("eb", jobs, openAiApiKey)
          IN /\ Spend(0, Len(jobs))
             /\ tasks' = [tasks EXCEPT !["eb"] = t]
             /\ ui' = Closed([ui EXCEPT !.isBulkTranslating = TRUE, !.edError = "none"],
                             "eb", t)
  /\ UNCHANGED <<catalogVars, openAiApiKey, tokenReport, statusCode, saveTimers,
                 toHost, toWebview, hostVars, sentUpdates, loaded>>

\* the buttons of the list that open a modal
OpenModal(which) ==
  /\ ListMounted /\ ~AnyModalOpen
  /\ ui' = CASE which = "createKey" -> [ui EXCEPT !.isModalOpen = TRUE]
             [] which = "quickAdd" -> [ui EXCEPT !.isQuickAddOpen = TRUE]
             [] OTHER -> [ui EXCEPT !.isTranslateAllOpen = TRUE, !.taSubmitting = FALSE,
                                    !.taError = "none"]
  /\ Gesture
  /\ UNCHANGED <<catalogVars, openAiApiKey, tokenReport, statusCode, saveTimers, tasks,
                 toHost, toWebview, hostVars, sentUpdates, loaded>>

\* onClose of a modal: the quick-add header button is enabled while submitting
CloseModal(which) ==
  /\ ListMounted
  /\ CASE which = "createKey" -> ui.isModalOpen
       [] which = "quickAdd" -> ui.isQuickAddOpen
       [] OTHER -> ui.isTranslateAllOpen /\ ~ui.taSubmitting
  /\ ui' = CASE which = "createKey" -> [ui EXCEPT !.isModalOpen = FALSE]
             [] which = "quickAdd" -> [ui EXCEPT !.isQuickAddOpen = FALSE]
             [] OTHER -> [ui EXCEPT !.isTranslateAllOpen = FALSE]
  /\ Gesture
  /\ UNCHANGED <<catalogVars, openAiApiKey, tokenReport, statusCode, saveTimers, tasks,
                 toHost, toWebview, hostVars, sentUpdates, loaded>>

\* CreateKeyModal.handleSubmit: handleAddKey(name.trim(), value), then onClose
handleAddKey(keyName, initialValue) ==
  /\ ListMounted /\ ui.isModalOpen
  /\ Trim(keyName) # Empty
  /\ Spend(1, 0)
  /\ LET added == addKeyInternal(keys, values, sourceLangCode, Trim(keyName), initialValue)
     IN /\ keys' = added.keys
        /\ values' = added.values
        /\ Post(added.msgs)
  /\ ui' = [ui EXCEPT !.isModalOpen = FALSE]
  /\ UNCHANGED <<languages, activeLangCodes, sourceLangCode, openAiApiKey, tokenReport,
                 statusCode, saveTimers, tasks, toWebview, hostVars, loaded>>

\* QuickAddModal.handleSubmit: handleQuickAdd(name.trim(), value, onProgress)
QuickAddSubmit(keyName, sourceValue) ==
  /\ ListMounted /\ ui.isQuickAddOpen
  /\ ~ui.qaSubmitting /\ Trim(keyName) # Empty
  /\ ~Running(tasks["qa"])
  /\ LET h == handleQuickAdd(keys, values, activeLanguages, sourceLangCode, openAiApiKey,
                             Trim(keyName), sourceValue)
         t == IF h.result = "run" THEN Started("qa", h.jobs, openAiApiKey)
              ELSE Returned(h.result)
     IN /\ Spend(1, Len(h.jobs))
        /\ keys' = h.keys
        /\ values' = h.values
        /\ Post(h.msgs)
        /\ tasks' = [tasks EXCEPT !["qa"] = t]
        /\ ui' = Closed([ui EXCEPT !.qaSubmitting = TRUE, !.qaError = "none"], "qa", t)
  /\ UNCHANGED <<languages, activeLangCodes, sourceLangCode, openAiApiKey, tokenReport,
                 statusCode, saveTimers, toWebview, hostVars, loaded>>

\* TranslateAllModal.handleConfirm: the button is enabled when canTranslate
TranslateAllConfirm ==
  /\ ListMounted /\ ui.isTranslateAllOpen
  /\ translateAllEstimate > 0 /\ openAiApiKey # Empty /\ ~ui.taSubmitting
  /\ ~Running(tasks["ta"])
  /\ LET h == handleTranslateAll(keys, values, activeLanguages, sourceLangCode, openAiApiKey)
         t == IF h.result = "run" THEN Started("ta", h.jobs, openAiApiKey)
              ELSE Returned(h.result)
     IN /\ Spend(0, Len(h.jobs))
        /\ tasks' = [tasks EXCEPT !["ta"] = t]
        /\ ui' = Closed([ui EXCEPT !.taSubmitting = TRUE, !.taError = "none"], "ta", t)
  /\ UNCHANGED <<catalogVars, openAiApiKey, tokenReport, statusCode, saveTimers,
                 toHost, toWebview, hostVars, sentUpdates, loaded>>

\* `${keyId}:${langCode}`
TimerKey(keyId, langCode) == keyId \o <<":">> \o langCode

\* handleInlineUpdate with a scheduleSave that does not clear the pending
\* timer of the cell: the write it had scheduled is sent as well
handleInlineUpdateKeepsTimer(keyId, langCode, newValue) ==
  /\ ListMounted /\ ~AnyModalOpen
  /\ keyId \in Range(keys)
  /\ langCode \in Range(activeLanguages)
  /\ newValue # Cell(values, keyId, langCode)
  /\ Spend(1, 0)
  /\ values' = SetCell(values, keyId, langCode, newValue)
  /\ saveTimers' = Put(saveTimers, TimerKey(keyId, langCode),
                       UpdateValueMsg(keyId, langCode, newValue))
  /\ IF TimerKey(keyId, langCode) \in DOMAIN saveTimers
     THEN Post(<<saveTimers[TimerKey(keyId, langCode)]>>)
     ELSE UNCHANGED <<toHost, sentUpdates>>
  /\ UNCHANGED <<keys, languages, activeLangCodes, sourceLangCode, openAiApiKey,
                 tokenReport, statusCode, ui, tasks, toWebview, hostVars, loaded>>

\* the table's textarea onChange in quick-edit mode
handleInlineUpdate(keyId, langCode, newValue) ==
  /\ ListMounted /\ ~AnyModalOpen
  /\ keyId \in Range(keys)
  /\ langCode \in Range(activeLanguages)
  /\ newValue # Cell(values, keyId, langCode)
  /\ Spend(1, 0)
  /\ values' = SetCell(values, keyId, langCode, newValue)
  /\ saveTimers' = Put(saveTimers, TimerKey(keyId, langCode),
                       UpdateValueMsg(keyId, langCode, newValue))
  /\ UNCHANGED <<keys, languages, activeLangCodes, sourceLangCode, openAiApiKey,
                 tokenReport, statusCode, ui, tasks, toHost, toWebview, hostVars,
                 sentUpdates, loaded>>

\* the callback of scheduleSave, 400 ms after the last inline edit of the cell
SaveTimerFires(timerKey) ==
  /\ timerKey \in DOMAIN saveTimers
  /\ Post(<<saveTimers[timerKey]>>)
  /\ saveTimers' = Remove(saveTimers, timerKey)
  /\ UNCHANGED <<catalogVars, openAiApiKey, tokenReport, statusCode, ui, tasks,
                 toWebview, hostVars, loaded, budget>>

handleDeleteKey(keyId) ==
  /\ ListMounted /\ ~AnyModalOpen
  /\ keyId \in Range(keys)
  /\ Spend(1, 0)
  /\ keys' = SelectSeq(keys, LAMBDA k : k # keyId)
  /\ values' = IF keyId \in DOMAIN values THEN Remove(values, keyId) ELSE values
  /\ ui' = IF ui.editorKey = keyId
           THEN [Show(ui, "list") EXCEPT !.editorKey = Empty, !.editorLang = Empty]
           ELSE ui
  /\ Post(<<DeleteKeyMsg(keyId)>>)
  /\ UNCHANGED <<languages, activeLangCodes, sourceLangCode, openAiApiKey, tokenReport,
                 statusCode, saveTimers, tasks, toWebview, hostVars, loaded>>

\* Settings: the suggested languages no known language normalizes to
availableSuggestions ==
  {code \in Range(POPULAR_LANGUAGE_ORDER) \cap LangUniverse :
     \A i \in 1..Len(languages) :
        normalizeLanguageCode(languages[i]) # normalizeLanguageCode(code)}

handleAddLanguage(code) ==
  /\ ui.currentView = "settings"
  /\ code \in availableSuggestions
  /\ Spend(1, 0)
  /\ Post(<<AddLanguageMsg(code)>>)
  /\ UNCHANGED <<webviewVars, toWebview, hostVars, loaded>>

handleInitializeI18n ==
  /\ statusCode \in {"missingFolder", "emptyFolder"}
  /\ Spend(1, 0)
  /\ Post(<<InitI18nMsg>>)
  /\ UNCHANGED <<webviewVars, toWebview, hostVars, loaded>>

handleSetSourceLanguage(code) ==
  /\ ui.currentView = "settings"
  /\ code \in Range(languages)
  /\ code # sourceLangCode
  /\ Spend(1, 0)
  /\ sourceLangCode' = code
  /\ activeLangCodes' = IF code \in Range(activeLangCodes) THEN activeLangCodes
                        ELSE Append(activeLangCodes, code)
  /\ Post(<<UpdateConfigMsg("sourceLanguage", code)>>)
  /\ UNCHANGED <<keys, values, languages, openAiApiKey, tokenReport, statusCode, ui,
                 saveTimers, tasks, toWebview, hostVars, loaded>>

handleOpenAiApiKeyChange(value) ==
  /\ ui.currentView = "settings"
  /\ value # openAiApiKey
  /\ Spend(1, 0)
  /\ openAiApiKey' = value
  /\ Post(<<UpdateConfigMsg("openaiApiKey", value)>>)
  /\ UNCHANGED <<catalogVars, tokenReport, statusCode, ui, saveTimers, tasks,
                 toWebview, hostVars, loaded>>

(***************************************************************************)
(* The provider answers, and the delay between two jobs ends               *)
(***************************************************************************)
\* translateWithOpenAi resolved with `text`: onUsage, then the handler goes on
ProviderOk(kind, text) ==
  /\ tasks[kind].pc = "call"
  /\ LET t == tasks[kind]
         job == t.jobs[t.index]
         next == Succeeded(kind, t)
         saved == IF kind = "ed" THEN <<>>
                  ELSE <<UpdateValueMsg(job.keyId, job.targetLangCode, text)>>
         shown == IF kind = "ed"
                  THEN IF t.mounted THEN [ui EXCEPT !.value = text] ELSE ui
                  ELSE RowReplaced(ui, values', job.keyId)
     IN /\ tokenReport' = applyTokenUsage(tokenReport, Usage(job.targetLangCode))
        /\ values' = IF kind = "ed" THEN values
                     ELSE SetCell(values, job.keyId, job.targetLangCode, text)
        /\ Post(<<RecordTokenUsageMsg(Usage(job.targetLangCode))>> \o saved)
        /\ tasks' = [tasks EXCEPT ![kind] = next]
        /\ ui' = Closed(shown, kind, next)
  /\ UNCHANGED <<keys, languages, activeLangCodes, sourceLangCode, openAiApiKey,
                 statusCode, saveTimers, toWebview, hostVars, loaded, budget>>

\* fetch rejected or the response was not ok: translateText throws
ProviderFail(kind) ==
  /\ tasks[kind].pc = "call"
  /\ LET next == Failed(kind, tasks[kind])
     IN /\ tasks' = [tasks EXCEPT ![kind] = next]
        /\ ui' = Closed(ui, kind, next)
  /\ UNCHANGED <<catalogVars, openAiApiKey, tokenReport, statusCode, saveTimers,
                 toHost, toWebview, hostVars, sentUpdates, loaded, budget>>

\* await sleep(300) of handleTranslateAll ends: the next job's call
SleepDone ==
  /\ tasks["ta"].pc = "sleep"
  /\ LET next == Issue("ta", tasks["ta"], tasks["ta"].index + 1)
     IN /\ tasks' = [tasks EXCEPT !["ta"] = next]
        /\ ui' = Closed(ui, "ta", next)
  /\ UNCHANGED <<catalogVars, openAiApiKey, tokenReport, statusCode, saveTimers,
                 toHost, toWebview, hostVars, sentUpdates, loaded, budget>>

(***************************************************************************)
(* Extension host: onDidReceiveMessage and the configuration listener      *)
(***************************************************************************)
InitMsg(payload) == [type |-> "init", payload |-> payload]
TokenReportMsg(report) == [type |-> "tokenReport", payload |-> report]

\* a load that writes every key of the table into every file that lacks it
LoadFilling(fs, cfg, report) ==
  LET ks == SortKeys(AllKeys(fs, JsonFiles(fs)))
      Filled[n \in 0..Len(ks)] ==
        IF n = 0 THEN fs
        ELSE addTranslationKey(Filled[n - 1], ks[n], cfg.sourceLanguage, Empty)
  IN [files |-> IF JsonFiles(fs) = {} THEN fs ELSE Filled[Len(ks)],
      payload |-> readI18nData(fs, cfg, report)]

\* readI18nData: the payload, and the files as the call leaves them
Load(fs, cfg, report) == [files |-> fs, payload |-> readI18nData(fs, cfg, report)]

\* config.update(message.key, message.value, target)
UpdateConfig(cfg, key, value) ==
  IF key = "sourceLanguage" THEN [cfg EXCEPT !.sourceLanguage = value]
  ELSE IF key = "openaiApiKey" THEN [cfg EXCEPT !.openaiApiKey = value]
  ELSE cfg

\* the files after the write a message asks for
Written(m, fs, cfg) ==
  CASE m.type = "initI18n" -> initializeI18n(fs, cfg)
    [] m.type = "updateValue" -> updateTranslationValue(fs, m.lang, m.key, m.value)
    [] m.type = "addKey" -> addTranslationKey(fs, m.key, m.sourceLang, m.value)
    [] m.type = "addLanguage" -> addLanguageFile(fs, m.lang)
    [] OTHER -> fs

\* whether the host answers the message with a fresh init payload
Reloads(m, cfg) ==
  \/ m.type \in {"ready", "refresh", "initI18n", "addLanguage"}
  \/ m.type = "updateConfig" /\ UpdateConfig(cfg, m.key, m.value) # cfg

HostReceive ==
  /\ toHost # <<>>
  /\ LET m == Head(toHost)
         cfg == IF m.type = "updateConfig" THEN UpdateConfig(config, m.key, m.value)
                ELSE config
         report == IF m.type = "recordTokenUsage"
                   THEN updateTokenReport(hostReport, m.usage) ELSE hostReport
         read == Load(Written(m, files, config), cfg, report)
         replies == IF Reloads(m, config) THEN <<InitMsg(read.payload)>>
                    ELSE IF m.type = "recordTokenUsage" THEN <<TokenReportMsg(report)>>
                    ELSE <<>>
     IN /\ Len(toWebview) + Len(replies) <= MaxQueue
        /\ files' = IF Reloads(m, config) THEN read.files ELSE Written(m, files, config)
        /\ config' = cfg
        /\ hostReport' = report
        /\ toWebview' = toWebview \o replies
        /\ loaded' = IF Reloads(m, config)
                     THEN <<[fs |-> Written(m, files, config), payload |-> read.payload]>>
                     ELSE loaded
  /\ toHost' = Tail(toHost)
  /\ UNCHANGED <<webviewVars, sentUpdates, budget>>

(***************************************************************************)
(* Webview: handleMessage                                                  *)
(***************************************************************************)
WebviewReceive ==
  /\ toWebview # <<>>
  /\ LET m == Head(toWebview)
     IN IF m.type = "init"
        THEN /\ languages' = m.payload.languages
             /\ keys' = m.payload.keys
             /\ values' = m.payload.values
             /\ activeLangCodes' = m.payload.languages
             /\ sourceLangCode' =
                  IF m.payload.sourceLangCode # Empty THEN m.payload.sourceLangCode
                  ELSE IF Len(m.payload.languages) > 0 THEN m.payload.languages[1]
                  ELSE EN
             /\ openAiApiKey' = m.payload.openaiApiKey
             /\ tokenReport' = m.payload.tokenReport
             /\ statusCode' = m.payload.status
             /\ ui' = RowReplaced(ui, values', ui.editorKey)
        ELSE /\ tokenReport' = m.payload
             /\ UNCHANGED <<catalogVars, openAiApiKey, statusCode, ui>>
  /\ toWebview' = Tail(toWebview)
  /\ UNCHANGED <<saveTimers, tasks, toHost, hostVars, sentUpdates, loaded, budget>>

(***************************************************************************)
(* The catalog session                                                     *)
(***************************************************************************)
Views == {"dashboard", "list", "settings"}
Modals == {"createKey", "quickAdd", "translateAll"}

\* the webview as React constructs it, its 'ready' message posted
Constructed ==
  /\ keys = <<>>
  /\ values = EmptyMap
  /\ languages = <<>>
  /\ activeLangCodes = <<>>
  /\ sourceLangCode = EN
  /\ openAiApiKey = Empty
  /\ tokenReport = EMPTY_TOKEN_REPORT
  /\ statusCode = "none"
  /\ ui = InitialUi
  /\ saveTimers = EmptyMap
  /\ tasks = [kind \in TaskKinds |-> IdleTask]
  /\ toHost = <<ReadyMsg>>
  /\ toWebview = <<>>
  /\ hostReport = EMPTY_TOKEN_REPORT
  /\ sentUpdates = {}
  /\ loaded = <<>>
  /\ budget = [ops |-> MaxOps, calls |-> MaxCalls, gestures |-> MaxGestures]

Init ==
  /\ Constructed
  /\ files \in SessionDirs
  /\ config \in [sourceLanguage : {EN}, openaiApiKey : ApiKeys]

UserAction ==
  \/ \E view \in Views : Navigate(view)
  \/ \E keyId \in Range(keys), langCode \in LangUniverse : handleEdit(keyId, langCode)
  \/ EditorCancel
  \/ \E text \in TextInputs : EditorType(text)
  \/ EditorSave
  \/ \E nextLang \in LangUniverse : handleEditorTargetChange(nextLang)
  \/ handleAiTranslate
  \/ handleTranslateMissing
  \/ \E which \in Modals : OpenModal(which)
  \/ \E which \in Modals : CloseModal(which)
  \/ \E keyName \in KeyInputs, text \in TextInputs : handleAddKey(keyName, text)
  \/ \E keyName \in KeyInputs, text \in TextInputs : QuickAddSubmit(keyName, text)
  \/ TranslateAllConfirm
  \/ \E keyId \in Range(keys), langCode \in LangUniverse, text \in TextInputs :
        handleInlineUpdate(keyId, langCode, text)
  \/ \E timerKey \in DOMAIN saveTimers : SaveTimerFires(timerKey)
  \/ \E keyId \in Range(keys) : handleDeleteKey(keyId)
  \/ \E code \in LangUniverse : handleAddLanguage(code)
  \/ handleInitializeI18n
  \/ \E code \in LangUniverse : handleSetSourceLanguage(code)
  \/ \E value \in ApiKeys : handleOpenAiApiKeyChange(value)

Next ==
  \/ UserAction
  \/ \E kind \in TaskKinds, text \in ProviderTexts : ProviderOk(kind, text)
  \/ \E kind \in TaskKinds : ProviderFail(kind)
  \/ SleepDone
  \/ HostReceive
  \/ WebviewReceive

Spec == Init /\ [][Next]_vars

(***************************************************************************)
(* The token report over the session                                       *)
(***************************************************************************)
\* the recordTokenUsage messages among msgs
UsagesIn(msgs) ==
  Cardinality({i \in 1..Len(msgs) : msgs[i].type = "recordTokenUsage"})

\* map[k], 0 when map has no k
CountOf(map, k) == IF k \in DOMAIN map THEN map[k] ELSE 0

\* `after` is `before` with exactly one more request, that of `usage`
FoldedOnce(before, after, usage) ==
  /\ after.requests = before.requests + 1
  /\ after.totalTokens = before.totalTokens + usage.totalTokens
  /\ after.promptTokens = before.promptTokens + usage.promptTokens
  /\ after.completionTokens = before.completionTokens + usage.completionTokens
  /\ DOMAIN after.perModel = DOMAIN before.perModel \cup {usage.model}
  /\ \A k \in DOMAIN after.perModel :
       after.perModel[k] = CountOf(before.perModel, k)
                           + (IF k = usage.model THEN usage.totalTokens ELSE 0)
  /\ DOMAIN after.perLanguage = DOMAIN before.perLanguage \cup {usage.targetLangCode}
  /\ \A k \in DOMAIN after.perLanguage :
       after.perLanguage[k] = CountOf(before.perLanguage, k)
                              + (IF k = usage.targetLangCode THEN usage.totalTokens ELSE 0)

\* the step is the provider's answer to the call of some handler
CallSucceeds ==
  \E kind \in TaskKinds :
     tasks[kind].pc = "call" /\ tasks'[kind] = Succeeded(kind, tasks[kind])
CallFails ==
  \E kind \in TaskKinds :
     tasks[kind].pc = "call" /\ tasks'[kind] = Failed(kind, tasks[kind])

AtLeast(a, b) ==
  /\ a.requests >= b.requests
  /\ a.totalTokens >= b.totalTokens
  /\ a.promptTokens >= b.promptTokens
  /\ a.completionTokens >= b.completionTokens
  /\ \A k \in DOMAIN b.perModel : CountOf(a.perModel, k) >= b.perModel[k]
  /\ \A k \in DOMAIN b.perLanguage : CountOf(a.perLanguage, k) >= b.perLanguage[k]

\* C16: no step lowers a count of the token report the webview holds: not
\* the local fold of a usage, not the host's 'tokenReport' reply, not an
\* 'init' payload.
C16_WebviewReportMonotone ==
  [][AtLeast(tokenReport', tokenReport)]_vars

\* the messages the step has appended to toHost
PostedNow ==
  IF Len(toHost') > Len(toHost) /\ SubSeq(toHost', 1, Len(toHost)) = toHost
  THEN SubSeq(toHost', Len(toHost) + 1, Len(toHost'))
  ELSE <<>>

\* C17: when the provider answers the editor's single translation, the cell
\* (key, target language) of the catalog takes the translated text, which is
\* posted for the file, and the usage is reported; when the call fails the
\* run ends with the translation error and neither the catalog nor the
\* files nor the queue to the host change.
C17_RunSingle ==
  [][LET t == tasks["ed"]
         job == t.jobs[t.index]
     IN /\ (t.pc = "call" /\ tasks'["ed"] = Succeeded("ed", t)) =>
             /\ UsagesIn(toHost') = UsagesIn(toHost) + 1
             /\ \E i \in 1..Len(PostedNow) :
                   /\ PostedNow[i].type = "updateValue"
                   /\ PostedNow[i].key = job.keyId
                   /\ PostedNow[i].lang = job.targetLangCode
                   /\ Cell(values', job.keyId, job.targetLangCode) = PostedNow[i].value
        /\ (t.pc = "call" /\ tasks'["ed"] = Failed("ed", t)) =>
             /\ tasks'["ed"].result = "ai"
             /\ t.mounted => ui'.edError = "ai"
             /\ values' = values
             /\ files' = files
             /\ toHost' = toHost]_vars

(***************************************************************************)
(* The batch run: the catalog is loaded, the list shows the translate-all  *)
(* modal, and optionally a key was just added with handleAddKey            *)
(***************************************************************************)
\* the webview after handleMessage took the init payload of readI18nData
Shows(payload) ==
  /\ languages = payload.languages
  /\ activeLangCodes = payload.languages
  /\ sourceLangCode = payload.sourceLangCode
  /\ openAiApiKey = payload.openaiApiKey
  /\ tokenReport = payload.tokenReport
  /\ statusCode = payload.status

InitBatch ==
  /\ files \in BatchDirs
  /\ config \in [sourceLanguage : {EN, FR}, openaiApiKey : {<<"k">>}]
  /\ hostReport = EMPTY_TOKEN_REPORT
  /\ LET payload == readI18nData(files, config, hostReport)
         added == addKeyInternal(payload.keys, payload.values, payload.sourceLangCode,
                                 KeyN, <<"h">>)
     IN /\ Shows(payload)
        /\ loaded = <<[fs |-> files, payload |-> payload]>>
        /\ \/ /\ keys = payload.keys
              /\ values = payload.values
              /\ toHost = <<>>
           \/ /\ keys = added.keys
              /\ values = added.values
              /\ toHost = added.msgs
  /\ ui = [InitialUi EXCEPT !.currentView = "list", !.isTranslateAllOpen = TRUE]
  /\ saveTimers = EmptyMap
  /\ tasks = [kind \in TaskKinds |-> IdleTask]
  /\ toWebview = <<>>
  /\ sentUpdates = {}
  /\ budget = [ops |-> 0, calls |-> MaxJobs, gestures |-> 0]

NextBatch ==
  \/ TranslateAllConfirm
  \/ \E text \in ProviderTexts : ProviderOk("ta", text)
  \/ ProviderFail("ta")
  \/ SleepDone
  \/ HostReceive
  \/ WebviewReceive

SpecBatch == InitBatch /\ [][NextBatch]_vars

(***************************************************************************)
(* Loading: the folder holds any of the documents of LoadDirs              *)
(***************************************************************************)
InitLoad ==
  /\ Constructed
  /\ files \in LoadDirs
  /\ config \in [sourceLanguage : {EN, FR}, openaiApiKey : {Empty}]

NextLoad ==
  \/ HostReceive
  \/ WebviewReceive
  \/ handleInitializeI18n
  \/ \E view \in Views : Navigate(view)
  \/ \E which \in {"createKey"} : OpenModal(which)
  \/ \E keyName \in KeyInputs, text \in TextInputs : handleAddKey(keyName, text)
  \/ \E keyId \in Range(keys), langCode \in LangUniverse, text \in TextInputs :
        handleInlineUpdate(keyId, langCode, text)
  \/ \E timerKey \in DOMAIN saveTimers : SaveTimerFires(timerKey)
  \/ \E code \in LangUniverse : handleAddLanguage(code)
  \/ \E code \in LangUniverse : handleSetSourceLanguage(code)

SpecLoad == InitLoad /\ [][NextLoad]_vars

(***************************************************************************)
(* Properties of the batch run (checked under SpecBatch)                   *)
(***************************************************************************)
PositionIn(q, x) == CHOOSE i \in 1..Len(q) : q[i] = x

\* the cells translate-all has to fill: non-blank source, blank active target
WantedPairs ==
  {p \in Range(keys) \X Range(activeLanguages) :
     /\ p[2] # sourceLangCode
     /\ ~IsBlank(Cell(values, p[1], sourceLangCode))
     /\ IsBlank(Cell(values, p[1], p[2]))}

Hello == <<"H", "e", "l", "l", "o">>

\* C1: collectTranslateAllJobs returns exactly one job for every (key, active
\* target language) whose source text is non-blank and whose target value is
\* absent, empty or whitespace, and no other job; each job carries the key's
\* source text; the jobs come in key order and, within a key, in the order
\* of the active languages; for {a: "Hello"} in en only and languages
\* [en, fr, de] the jobs are (a, fr) then (a, de).
C1_CollectJobsExact ==
  LET jobs == collectTranslateAllJobs(keys, values, activeLanguages, sourceLangCode)
      Pair(j) == <<j.keyId, j.targetLangCode>>
      Before(x, y) ==
        \/ PositionIn(keys, x.keyId) < PositionIn(keys, y.keyId)
        \/ /\ x.keyId = y.keyId
           /\ PositionIn(activeLanguages, x.targetLangCode)
                < PositionIn(activeLanguages, y.targetLangCode)
  IN /\ {Pair(jobs[i]) : i \in 1..Len(jobs)} = WantedPairs
     /\ Len(jobs) = Cardinality(WantedPairs)
     /\ \A i \in 1..Len(jobs) :
          jobs[i].sourceText = Cell(values, jobs[i].keyId, sourceLangCode)
     /\ \A i, j \in 1..Len(jobs) : i < j => Before(jobs[i], jobs[j])
     /\ (WantedPairs = {}) = (jobs = <<>>)
     /\ collectTranslateAllJobs(<<KeyA>>, [k \in {KeyA} |-> [l \in {EN} |-> Hello]],
                                <<EN, FR, DE>>, EN)
          = <<Job(KeyA, Hello, FR), Job(KeyA, Hello, DE)>>

\* a run just started on three jobs of two keys, one of them with absent cells
C1_Witness ==
  /\ tasks["ta"].pc = "call" /\ tasks["ta"].index = 1
  /\ tasks["ta"].jobs = collectTranslateAllJobs(keys, values, activeLanguages, sourceLangCode)
  /\ Len(tasks["ta"].jobs) = 3
  /\ \E i, j \in 1..3 :
       /\ tasks["ta"].jobs[i].keyId # tasks["ta"].jobs[j].keyId
       /\ tasks["ta"].jobs[i].targetLangCode \notin DOMAIN values[tasks["ta"].jobs[i].keyId]

\* the jobs of the run for which the trace holds an event e
JobsWith(t, e) == {t.trace[p].i : p \in {q \in 1..Len(t.trace) : t.trace[q].e = e}}

CellSent(job) ==
  {m \in sentUpdates : m.key = job.keyId /\ m.lang = job.targetLangCode}

\* C2: once the provider call of job k of a translate-all run has failed, the
\* run has returned the translation-failed error; jobs 1..k-1, and no others,
\* were saved, and the table still holds for each of them a value that was
\* sent to the host; the cell of job k holds no text and no text was sent
\* for it; provider calls were made for jobs 1..k and for no later job.
C2_AbortOnFirstFailure ==
  LET t == tasks["ta"]
      failed == JobsWith(t, "fail")
  IN failed # {} =>
       LET k == CHOOSE i \in failed : TRUE
       IN /\ failed = {k}
          /\ t.pc = "done" /\ t.result = "translationFailed"
          /\ t.mounted => ui.taError = "translationFailed" /\ ~ui.taSubmitting
          /\ JobsWith(t, "call") = 1..k
          /\ JobsWith(t, "save") = 1..(k - 1)
          /\ \A j \in 1..(k - 1) :
               \E m \in CellSent(t.jobs[j]) :
                  m.value = Cell(values, t.jobs[j].keyId, t.jobs[j].targetLangCode)
          /\ IsBlank(Cell(values, t.jobs[k].keyId, t.jobs[k].targetLangCode))
          /\ \A m \in CellSent(t.jobs[k]) : IsBlank(m.value)

\* a run of three jobs whose second call failed
C2_Witness ==
  /\ Len(tasks["ta"].jobs) = 3
  /\ JobsWith(tasks["ta"], "fail") = {2}
  /\ JobsWith(tasks["ta"], "save") = {1}
  /\ tasks["ta"].result = "translationFailed"

\* the positions of the trace that hold a progress report of a finished job
ReportsOf(t) == {p \in 1..Len(t.trace) : t.trace[p].e = "progress" /\ t.trace[p].d >= 1}

DelayFollows(t, p) == p < Len(t.trace) /\ t.trace[p + 1].e = "sleep"

\* what C4 says of the reports, whatever it says of the delay
ProgressReported(t) ==
  LET n == Len(t.jobs)
  IN /\ \A p \in 1..Len(t.trace) :
          t.trace[p].e \in {"save", "fail"} =>
             /\ p < Len(t.trace)
             /\ t.trace[p + 1] = Ev("progress", t.trace[p].i, t.trace[p].i, n)
     /\ \A p \in ReportsOf(t) :
          /\ t.trace[p - 1].e \in {"save", "fail"}
          /\ t.trace[p].d <= n
          /\ \A q \in ReportsOf(t) : q < p => t.trace[q].d < t.trace[p].d
     /\ \A p \in 1..Len(t.trace) :
          (t.trace[p].e = "call" /\ t.trace[p].i >= 2) =>
             \E q \in ReportsOf(t) : q < p /\ t.trace[q].d = t.trace[p].i - 1
     /\ {t.trace[p].d : p \in ReportsOf(t)} = 1..t.done

\* C4 (as amended): after each job of a translate-all run, succeeded or
\* failed, onProgress(done, total) is reported with done the number of jobs
\* attempted and total the number of jobs, before any later call; the done
\* values grow by one and never exceed total; the delay follows the report
\* exactly when the job succeeded and more jobs remain: never after the last
\* job, and never after a failed job, where the run returns at once.
C4_ProgressThenDelay ==
  LET t == tasks["ta"]
  IN /\ ProgressReported(t)
     /\ \A p \in ReportsOf(t) :
          DelayFollows(t, p) <=>
             (t.trace[p - 1].e = "save" /\ t.trace[p].d < Len(t.jobs))

\* C4 (as stated): the delay follows the report exactly when more jobs remain.
C4_DelayWheneverJobsRemain ==
  LET t == tasks["ta"]
  IN /\ ProgressReported(t)
     /\ \A p \in ReportsOf(t) :
          DelayFollows(t, p) <=> (t.trace[p].d < Len(t.jobs))

\* a run of three jobs that ended well: two delays, none after the last job
C4_Witness ==
  /\ tasks["ta"].result = "ok"
  /\ Len(tasks["ta"].jobs) = 3
  /\ JobsWith(tasks["ta"], "sleep") = {1, 2}

\* the write of the job is in the language's file and no message for its
\* cell is still waiting
Durable(job) ==
  /\ job.keyId \in DOMAIN FlatOf(files, job.targetLangCode)
  /\ \A i \in 1..Len(toHost) :
       ~(toHost[i].type = "updateValue" /\ toHost[i].key = job.keyId
           /\ toHost[i].lang = job.targetLangCode)

\* C5 (as stated): while the provider call of job k+1 of a translate-all run
\* is in flight, the writes of jobs 1..k are in the language files.
C5_DurableBeforeNextCall ==
  LET t == tasks["ta"]
  IN t.pc = "call" => \A j \in 1..(t.index - 1) : Durable(t.jobs[j])

(***************************************************************************)
(* Properties of loading (checked under SpecLoad)                          *)
(***************************************************************************)
\* C8: after readI18nData found at least one JSON file, the keys of the
\* table are exactly the union of the flattened key sets of the files, each
\* once; every key has an entry for every language code, which is the string
\* the file stores at that key, or the empty string when it stores none; a
\* string stored at the top level under a name without dots is the entry.
C8_LoadedTableIsUnion ==
  (loaded # <<>> /\ JsonFiles(loaded[1].fs) # {}) =>
    LET fs == loaded[1].fs
        p == loaded[1].payload
        codes == JsonFiles(fs)
        Flat(code) == flattenObject(readJsonFile(fs[code]), Empty, EmptyMap)
        keySet == UNION {DOMAIN Flat(code) : code \in codes}
        Top(code) == readJsonFile(fs[code]).kids
    IN /\ p.status = "ok"
       /\ Range(p.languages) = codes
       /\ Range(p.keys) = keySet
       /\ Len(p.keys) = Cardinality(keySet)
       /\ DOMAIN p.values = keySet
       /\ \A key \in keySet, code \in codes :
            /\ code \in DOMAIN p.values[key]
            /\ p.values[key][code] =
                 IF key \in DOMAIN Flat(code) THEN Flat(code)[key] ELSE Empty
       /\ \A code \in codes : \A i \in 1..Len(Top(code)) :
            (Top(code)[i].n.t = "str" /\ Len(Split(Top(code)[i].k)) = 1) =>
               p.values[Top(code)[i].k][code] = Top(code)[i].n.v

\* a load of en.json {a:{b:"h"}}, fr.json {a:"t"} and a de.json that is no JSON
C8_Witness ==
  /\ loaded # <<>>
  /\ loaded[1].fs = DirNested
  /\ loaded[1].payload.values[KeyAB] = [l \in LangUniverse |-> IF l = EN THEN <<"h">> ELSE Empty]
  /\ loaded[1].payload.values[KeyA][FR] = <<"t">>
  /\ values = loaded[1].payload.values

WriteTypes == {"initI18n", "updateValue", "addKey", "addLanguage"}

\* C10: a step changes the language files only when the host handles an
\* updateValue, addKey, addLanguage or initI18n message; when the host loads
\* the catalog for any other message the files stay as they were, and a
\* language that lacks a key is reported with the empty string while its
\* file still lacks the key.
C10_LoadLeavesFiles ==
  [][ /\ (files' # files) =>
           (toHost # <<>> /\ Head(toHost).type \in WriteTypes /\ toHost' = Tail(toHost))
      /\ (HostReceive /\ Reloads(Head(toHost), config)) =>
           /\ loaded' # <<>>
           /\ loaded'[1].fs = files'
           /\ (Head(toHost).type \notin WriteTypes) => (files' = files)
           /\ \A code \in JsonFiles(files') : \A key \in DOMAIN loaded'[1].payload.values :
                key \notin DOMAIN FlatOf(files', code) =>
                   loaded'[1].payload.values[key][code] = Empty
    ]_vars

\* the table shows "" for a key that fr.json lacks, and fr.json still lacks it
C10_Witness ==
  /\ loaded # <<>>
  /\ files = loaded[1].fs
  /\ values = loaded[1].payload.values
  /\ KeyB \in DOMAIN values
  /\ FR \in JsonFiles(files)
  /\ KeyB \notin DOMAIN FlatOf(files, FR)
  /\ values[KeyB][FR] = Empty

(***************************************************************************)
(* Properties of the session (checked under Spec)                          *)
(***************************************************************************)
\* C3 (as stated): at most one provider call is in flight.
C3_AtMostOneInFlight == Cardinality(InFlight) <= 1

\* the targets of quick add: the active languages other than the source
QuickAddTargets == SelectSeq(activeLanguages, LAMBDA l : l # sourceLangCode)

\* the handler of `kind` returned the missing-key error at once: no request,
\* no message, and keys, values and token report as before
RefusedForKey(kind) ==
  /\ tasks'[kind] = Returned("openAiKeyMissing")
  /\ InFlight' = InFlight
  /\ toHost' = toHost
  /\ keys' = keys /\ values' = values /\ tokenReport' = tokenReport

\* C6: while the webview holds no API key, quick add with at least one
\* target language, the editor's single translation and the editor's
\* translate-missing each show the missing-key error and change neither
\* keys, values nor the token report, and send no request; translate-all
\* cannot be confirmed, handleTranslateAll returns the missing-key error, and
\* translateText throws before any request.
C6_MissingKeyRefused ==
  [][ (openAiApiKey = Empty) =>
        /\ ((\E keyName \in KeyInputs, text \in TextInputs : QuickAddSubmit(keyName, text))
              /\ Len(QuickAddTargets) > 0)
             => (RefusedForKey("qa") /\ ui'.qaError = "openAiKeyMissing"
                   /\ ~ui'.qaSubmitting)
        /\ handleAiTranslate
             => (RefusedForKey("ed") /\ ui'.edError = "openAiKeyMissing"
                   /\ ~ui'.isTranslating)
        /\ handleTranslateMissing
             => (RefusedForKey("eb") /\ ui'.edError = "openAiKeyMissing"
                   /\ ~ui'.isBulkTranslating)
        /\ ~TranslateAllConfirm
        /\ handleTranslateAll(keys, values, activeLanguages, sourceLangCode,
                              openAiApiKey).result = "openAiKeyMissing"
        /\ translateText(openAiApiKey) = "throw"
    ]_vars

\* quick add and then the editor's translation were refused for the key
C6_Witness ==
  /\ openAiApiKey = Empty
  /\ tasks["qa"].pc = "done" /\ tasks["qa"].result = "openAiKeyMissing"
  /\ tasks["ed"] = Returned("openAiKeyMissing")
  /\ ui.edError = "openAiKeyMissing"
  /\ Len(QuickAddTargets) > 0

\* quick add left the catalog alone: nothing written, sent or requested
NothingAdded ==
  /\ keys' = keys /\ values' = values
  /\ toHost' = toHost /\ sentUpdates' = sentUpdates
  /\ InFlight' = InFlight
  /\ tasks'["qa"].trace = <<>>

\* C7 (as amended): quick add with the name of an existing key writes
\* nothing, sends no addKey or updateValue message and makes no provider
\* call; it returns the duplicate-key error, unless the API key is missing
\* and there is a target language, when it returns the missing-key error.
C7_ExistingKeyRefused ==
  [][ \A keyName \in KeyInputs, text \in TextInputs :
        (QuickAddSubmit(keyName, text) /\ Trim(keyName) \in Range(keys)) =>
           /\ NothingAdded
           /\ tasks'["qa"].result =
                IF openAiApiKey = Empty /\ Len(QuickAddTargets) > 0
                THEN "openAiKeyMissing" ELSE "keyExists"
           /\ ui'.qaError = tasks'["qa"].result
    ]_vars

\* C7 (as stated): quick add with the name of an existing key returns the
\* duplicate-key error and writes nothing.
C7_DuplicateKeyError ==
  [][ \A keyName \in KeyInputs, text \in TextInputs :
        (QuickAddSubmit(keyName, text) /\ Trim(keyName) \in Range(keys)) =>
           /\ NothingAdded
           /\ tasks'["qa"].result = "keyExists"
    ]_vars

\* quick add of the existing key a was refused as a duplicate
C7_Witness ==
  /\ tasks["qa"] = Returned("keyExists")
  /\ ui.qaError = "keyExists"
  /\ ui.isQuickAddOpen
  /\ KeyA \in Range(keys)
  /\ sentUpdates = {} /\ InFlight = {}

\* C9 (as stated): every key id of the table has an entry for every known
\* language code.
C9_TableDense ==
  \A key \in DOMAIN values : \A i \in 1..Len(languages) :
     languages[i] \in DOMAIN values[key]

(***************************************************************************)
(* Further properties of loading (checked under SpecLoad)                  *)
(***************************************************************************)
\* C11: in every catalog a load returns with at least one language, and in
\* every init message that carries one, sourceLangCode is one of the
\* catalog's language codes: the configured preference when that is among
\* the languages, and otherwise the first language, which the sorted order
\* puts before every other.
C11_SourceIsKnownLanguage ==
  /\ (loaded # <<>> /\ Len(loaded[1].payload.languages) > 0) =>
       LET p == loaded[1].payload
           preference == config.sourceLanguage
       IN /\ p.sourceLangCode \in Range(p.languages)
          /\ p.sourceLangCode =
               IF preference \in Range(p.languages) THEN preference ELSE p.languages[1]
          /\ \A i \in 2..Len(p.languages) :
               compareLanguageCodes(p.languages[1], p.languages[i]) < 0
  /\ \A i \in 1..Len(toWebview) :
       (toWebview[i].type = "init" /\ Len(toWebview[i].payload.languages) > 0) =>
          toWebview[i].payload.sourceLangCode \in Range(toWebview[i].payload.languages)

\* the preference en is not among the languages fr and de: the webview was
\* told fr
C11_Witness ==
  /\ loaded # <<>>
  /\ config.sourceLanguage = EN
  /\ loaded[1].payload.languages = <<FR, DE>>
  /\ loaded[1].payload.sourceLangCode = FR
  /\ toWebview = <<>> /\ toHost = <<>>
  /\ sourceLangCode = FR

\* C12 (as stated): a language file that is no JSON, or whose top-level
\* value is not an object, is an empty document: its language is listed and
\* the load has status ok, it contributes no key and no value, and the
\* values of the other files are as those files store them.
C12_NonObjectFileIsEmpty ==
  (loaded # <<>> /\ JsonFiles(loaded[1].fs) # {}) =>
    LET fs == loaded[1].fs
        p == loaded[1].payload
        proper == {c \in JsonFiles(fs) : fs[c].t = "obj"}
    IN /\ p.status = "ok"
       /\ Range(p.languages) = JsonFiles(fs)
       /\ Range(p.keys) = AllKeys(fs, proper)
       /\ \A code \in JsonFiles(fs) \ proper : \A key \in DOMAIN p.values :
            p.values[key][code] = Empty
       /\ \A code \in proper : \A key \in DOMAIN FlatOf(fs, code) :
            p.values[key][code] = FlatOf(fs, code)[key]

(***************************************************************************)
(* The catalog store: the host handles the messages it is sent, whatever   *)
(* the sender's table holds                                                *)
(***************************************************************************)
\* messages the host is sent in one run of the store
MaxStoreOps == 2

KeyDotA == <<".", "a">>
StoreKeys == {KeyA, KeyAB, KeyDotA}
StoreTexts == {<<"h">>, <<"u">>}
\* en.json {} only
DirSourceOnly == Dir(EmptyObj, NoFile, NoFile)
StoreDirs == {DirEmpty, DirSourceOnly, DirOne, DirNested}

AddKeyMessages ==
  {AddKeyMsg(keyId, source, text) :
     keyId \in StoreKeys, source \in {EN, FR}, text \in StoreTexts}
UpdateValueMessages ==
  {UpdateValueMsg(keyId, code, text) :
     keyId \in StoreKeys, code \in {EN, DE}, text \in StoreTexts}
AddLanguageMessages == {AddLanguageMsg(code) : code \in LangUniverse}

\* window.postMessage to the host, one message at a time
HostIsSent(m) ==
  /\ toHost = <<>>
  /\ Spend(1, 0)
  /\ Post(<<m>>)
  /\ UNCHANGED <<webviewVars, toWebview, hostVars, loaded>>

InitStore ==
  /\ keys = <<>>
  /\ values = EmptyMap
  /\ languages = <<>>
  /\ activeLangCodes = <<>>
  /\ sourceLangCode = EN
  /\ openAiApiKey = Empty
  /\ tokenReport = EMPTY_TOKEN_REPORT
  /\ statusCode = "none"
  /\ ui = InitialUi
  /\ saveTimers = EmptyMap
  /\ tasks = [kind \in TaskKinds |-> IdleTask]
  /\ toHost = <<>>
  /\ toWebview = <<>>
  /\ hostReport = EMPTY_TOKEN_REPORT
  /\ sentUpdates = {}
  /\ loaded = <<>>
  /\ budget = [ops |-> MaxStoreOps, calls |-> 0, gestures |-> 0]
  /\ files \in StoreDirs
  /\ config \in [sourceLanguage : {EN, FR}, openaiApiKey : {Empty}]

NextStore ==
  \/ \E m \in AddKeyMessages : HostIsSent(m)
  \/ \E m \in UpdateValueMessages : HostIsSent(m)
  \/ \E m \in AddLanguageMessages : HostIsSent(m)
  \/ \E m \in {InitI18nMsg} : HostIsSent(m)
  \/ HostReceive
  \/ WebviewReceive

SpecStore == InitStore /\ [][NextStore]_vars

(***************************************************************************)
(* Properties of the catalog store (checked under SpecStore)               *)
(***************************************************************************)
\* the parts of `short` are the first parts of `long`
PathPrefix(short, long) ==
  Len(Split(short)) <= Len(Split(long))
    /\ SubSeq(Split(long), 1, Len(Split(short))) = Split(short)

\* C13 (as stated): when the host handles addKey(keyId, sourceLang, value),
\* every key that had a string value in a language file has the same value
\* after; a file where keyId had a value is left as it was, and a file where
\* neither keyId nor a key on its path had one gets keyId, with value in the
\* source file and the empty string in the others; no file is created but a
\* missing source-language file.
C13_AddKeyKeepsValues ==
  [][ (HostReceive /\ Head(toHost).type = "addKey") =>
        LET m == Head(toHost)
        IN /\ \A code \in JsonFiles(files) : \A key \in DOMAIN FlatOf(files, code) :
                /\ key \in DOMAIN FlatOf(files', code)
                /\ FlatOf(files', code)[key] = FlatOf(files, code)[key]
           /\ \A code \in JsonFiles(files) :
                m.key \in DOMAIN FlatOf(files, code) => files'[code] = files[code]
           /\ \A code \in JsonFiles(files) \cup {m.sourceLang} :
                (\A key \in DOMAIN FlatOf(files, code) :
                    ~PathPrefix(key, m.key) /\ ~PathPrefix(m.key, key))
                  => getNestedValue(readJsonFile(files'[code]), m.key) =
                       StrNode(IF code = m.sourceLang THEN m.value ELSE Empty)
           /\ JsonFiles(files') = JsonFiles(files) \cup {m.sourceLang}
    ]_vars

\* C20: when the host handles addLanguage or initI18n, every JSON file that
\* exists keeps its content; addLanguage(code) changes nothing when
\* <code>.json exists and otherwise creates it as the empty document;
\* initI18n writes the seed document to the file of the source language
\* when the folder holds no JSON file, and otherwise changes nothing.
C20_CreateOnly ==
  [][ (HostReceive /\ Head(toHost).type \in {"addLanguage", "initI18n"}) =>
        LET m == Head(toHost)
        IN /\ \A code \in JsonFiles(files) : files'[code] = files[code]
           /\ m.type = "addLanguage" =>
                files' = IF m.lang \in JsonFiles(files) THEN files
                         ELSE [files EXCEPT ![m.lang] = EmptyObj]
           /\ m.type = "initI18n" =>
                files' = IF JsonFiles(files) # {} THEN files
                         ELSE [files EXCEPT ![config.sourceLanguage] = SeedDocument]
    ]_vars

\* de.json was created next to en.json {a:"h"} and fr.json {}, and the
\* second message the host handled changed nothing
C20_Witness ==
  /\ budget.ops = 0 /\ toHost = <<>>
  /\ loaded # <<>> /\ loaded[1].fs = files
  /\ files = DirTwo

\* the sequences of object keys that reach a string leaf of the tree
RECURSIVE LeafPaths(_, _)
LeafPaths(node, segs) ==
  UNION {LET e == node.kids[i]
         IN IF e.n.t = "str" THEN {Append(segs, e.k)}
            ELSE IF e.n.t = "obj" THEN LeafPaths(e.n, Append(segs, e.k))
            ELSE {} : i \in 1..Len(node.kids)}

\* s1.s2.....sn
RECURSIVE DotPath(_)
DotPath(segs) ==
  IF Len(segs) = 1 THEN segs[1] ELSE segs[1] \o <<".">> \o DotPath(Tail(segs))

\* C18 (as stated): the flat keys of a language file are exactly the
\* dot-paths s1.s2.....sn of the key sequences that reach its string leaves,
\* empty segments included.
C18_EmptySegmentsKept ==
  \A code \in JsonFiles(files) :
     DOMAIN FlatOf(files, code) =
        {DotPath(segs) : segs \in LeafPaths(readJsonFile(files[code]), <<>>)}

\* the updateValue messages for de.json that the host was sent
SentToDe == {u \in sentUpdates : u.lang = DE}

\* C19 (as stated): when all the host handled were updateValue messages
\* for de.json, which was empty, one for each key of a flat map in which no
\* key's path is the beginning of another's, flattening de.json gives the
\* map back, in whatever order the messages came.
C19_RoundTrip ==
  LET m == {u.key : u \in SentToDe}
  IN (/\ toHost = <<>>
      /\ Cardinality(SentToDe) = MaxStoreOps - budget.ops
      /\ Cardinality(m) = Cardinality(SentToDe)
      /\ \A j, k \in m : j # k => ~PathPrefix(j, k))
     => /\ DOMAIN FlatOf(files, DE) = m
        /\ \A u \in SentToDe : FlatOf(files, DE)[u.key] = u.value

(***************************************************************************)
(* The language registry: the folder holds empty files of any of the       *)
(* codes of RegistryFiles, and the catalog is loaded                       *)
(***************************************************************************)
PT == <<"p", "t">>
PT_BR == <<"p", "t", "-", "B", "R">>
PT_PT == <<"p", "t", "-", "P", "T">>
ZH_CN == <<"z", "h", "-", "C", "N">>
ZH_TW == <<"z", "h", "-", "T", "W">>
ZN == <<"z", "n">>
NL == <<"n", "l">>
NL_UPPER == <<"N", "L">>
SV == <<"s", "v">>
RegistryFiles == {EN, PT, PT_BR, ZH_CN, ZN, NL, SV}
RegistryCodes == RegistryFiles \cup {PT_PT, ZH_TW, NL_UPPER}

InitRegistry ==
  /\ Constructed
  /\ files \in [RegistryFiles -> {NoFile, EmptyObj}]
  /\ config \in [sourceLanguage : {EN}, openaiApiKey : {Empty}]

NextRegistry ==
  \/ HostReceive
  \/ WebviewReceive

SpecRegistry == InitRegistry /\ [][NextRegistry]_vars

\* the pairs (a, b) of codes with compareLanguageCodes(a, b) < 0, and = 0
Before == {pair \in RegistryCodes \X RegistryCodes :
             compareLanguageCodes(pair[1], pair[2]) < 0}
Same == {pair \in RegistryCodes \X RegistryCodes :
           compareLanguageCodes(pair[1], pair[2]) = 0}

\* C14: compareLanguageCodes is a strict total order on the codes: the sign
\* of compare(a, b) is the opposite of that of compare(b, a), compare(a, b)
\* is 0 only for a = b, and compare(a, b) < 0 with compare(b, c) < 0 gives
\* compare(a, c) < 0; the languages of a loaded catalog are the codes of the
\* files, each before the next.
C14_StrictTotalOrder ==
  /\ \A a, b \in RegistryCodes :
       /\ <<a, b>> \in Before <=> <<b, a>> \notin Before \cup Same
       /\ <<a, b>> \in Same <=> <<b, a>> \in Same
       /\ <<a, b>> \in Same => a = b
  /\ \A a, b, c \in RegistryCodes :
       (<<a, b>> \in Before /\ <<b, c>> \in Before) => <<a, c>> \in Before
  /\ loaded # <<>> =>
       LET codes == loaded[1].payload.languages
       IN /\ Range(codes) = JsonFiles(loaded[1].fs)
          /\ \A i, j \in 1..Len(codes) :
               i < j => <<codes[i], codes[j]>> \in Before

\* the seven codes loaded: en, the pt codes, the zh codes, then the others
C14_Witness ==
  /\ loaded # <<>>
  /\ languages = <<EN, PT, PT_BR, ZH_CN, ZN, NL, SV>>
  /\ languages = loaded[1].payload.languages

(***************************************************************************)
(* The quick add: the catalog is loaded and the list shows the quick-add   *)
(* modal                                                                   *)
(***************************************************************************)
InitQuickAdd ==
  /\ files \in BatchDirs
  /\ config \in [sourceLanguage : {EN, FR}, openaiApiKey : {<<"k">>}]
  /\ hostReport = EMPTY_TOKEN_REPORT
  /\ LET payload == readI18nData(files, config, hostReport)
     IN /\ Shows(payload)
        /\ loaded = <<[fs |-> files, payload |-> payload]>>
        /\ keys = payload.keys
        /\ values = payload.values
  /\ ui = [InitialUi EXCEPT !.currentView = "list", !.isQuickAddOpen = TRUE]
  /\ saveTimers = EmptyMap
  /\ tasks = [kind \in TaskKinds |-> IdleTask]
  /\ toHost = <<>>
  /\ toWebview = <<>>
  /\ sentUpdates = {}
  /\ budget = [ops |-> MaxOps, calls |-> MaxJobs, gestures |-> 0]

NextQuickAdd ==
  \/ \E keyName \in KeyInputs, text \in TextInputs : QuickAddSubmit(keyName, text)
  \/ \E text \in ProviderTexts : ProviderOk("qa", text)
  \/ ProviderFail("qa")
  \/ HostReceive
  \/ WebviewReceive

SpecQuickAdd == InitQuickAdd /\ [][NextQuickAdd]_vars

\* the run of task t goes as a translate-all run over t.jobs goes: a report
\* after every job, and the delay after the report of every job that
\* succeeded with more jobs remaining
RunsAsRunAll(t) ==
  /\ ProgressReported(t)
  /\ \A p \in ReportsOf(t) :
       DelayFollows(t, p) <=>
          (t.trace[p - 1].e = "save" /\ t.trace[p].d < Len(t.jobs))
  /\ JobsWith(t, "fail") # {} =>
       /\ t.pc = "done" /\ t.result = "translationFailed"
       /\ \A i \in JobsWith(t, "fail") : JobsWith(t, "call") = 1..i

\* C21: a quick add of a new key with a non-blank source value runs the jobs
\* collectTranslateAllJobs emits for that key, and its calls, saves, progress
\* reports, delays between jobs and abort at the first failure are those of
\* a translate-all run over these jobs.
C21_QuickAddRunsAsRunAll ==
  [][LET t == tasks'["qa"]
     IN /\ (t.jobs # <<>> /\ t.jobs # tasks["qa"].jobs) =>
             t.jobs = collectTranslateAllJobs(<<t.jobs[1].keyId>>, values',
                                              activeLanguages', sourceLangCode')
        /\ RunsAsRunAll(t)]_vars

\* C22 (as stated): when a provider call of the editor's translate-missing
\* run has failed and the run has returned, a call was made for every
\* missing target language of the run.
C22_ContinuesPastFailure ==
  LET t == tasks["eb"]
  IN (t.pc = "done" /\ JobsWith(t, "fail") # {}) =>
        JobsWith(t, "call") = 1..Len(t.jobs)

\* C22 (as amended): once the provider call for target k of the editor's
\* translate-missing run has failed, the run has returned with the editor's
\* translation error; calls were made for targets 1..k only, targets 1..k-1
\* were saved, and no later target was attempted.
C22_StopsAtFirstFailure ==
  LET t == tasks["eb"]
      failed == JobsWith(t, "fail")
  IN failed # {} =>
       LET k == CHOOSE i \in failed : TRUE
       IN /\ failed = {k}
          /\ t.pc = "done" /\ t.result = "ai"
          /\ JobsWith(t, "call") = 1..k
          /\ JobsWith(t, "save") = 1..(k - 1)

\* a run over two missing targets whose first call failed
C22_Witness ==
  /\ Len(tasks["eb"].jobs) = 2
  /\ JobsWith(tasks["eb"], "fail") = {1}
  /\ JobsWith(tasks["eb"], "call") = {1}
  /\ tasks["eb"].pc = "done"

(***************************************************************************)
(* Editing: the catalog is loaded and the list is shown; cells are edited  *)
(* inline and in the editor, timers fire and the host writes               *)
(***************************************************************************)
\* inline edits and editor saves of one editing session
MaxEdits == 3
\* openings of the editor and changes of its text field
MaxEditGestures == 2

InitEdit ==
  /\ files \in {DirOne, DirTwo}
  /\ config \in [sourceLanguage : {EN}, openaiApiKey : {Empty}]
  /\ hostReport = EMPTY_TOKEN_REPORT
  /\ LET payload == readI18nData(files, config, hostReport)
     IN /\ Shows(payload)
        /\ loaded = <<[fs |-> files, payload |-> payload]>>
        /\ keys = payload.keys
        /\ values = payload.values
  /\ ui = [InitialUi EXCEPT !.currentView = "list"]
  /\ saveTimers = EmptyMap
  /\ tasks = [kind \in TaskKinds |-> IdleTask]
  /\ toHost = <<>>
  /\ toWebview = <<>>
  /\ sentUpdates = {}
  /\ budget = [ops |-> MaxEdits, calls |-> 0, gestures |-> MaxEditGestures]

NextEdit ==
  \/ \E keyId \in Range(keys), langCode \in LangUniverse, text \in TextInputs :
        handleInlineUpdate(keyId, langCode, text)
  \/ \E timerKey \in DOMAIN saveTimers : SaveTimerFires(timerKey)
  \/ \E keyId \in Range(keys), langCode \in LangUniverse : handleEdit(keyId, langCode)
  \/ \E text \in TextInputs : EditorType(text)
  \/ EditorSave
  \/ HostReceive

SpecEdit == InitEdit /\ [][NextEdit]_vars

\* the timers the step has set or set again, and those that have fired
TimersSet ==
  {tk \in DOMAIN saveTimers' : tk \notin DOMAIN saveTimers \/ saveTimers'[tk] # saveTimers[tk]}
TimersFired == DOMAIN saveTimers \ DOMAIN saveTimers'

\* C23: at most one write is pending for a cell; an inline edit replaces the
\* pending write of its cell by one of the value just typed and sends
\* nothing; a timer that fires sends its pending write, once, and it is then
\* no longer pending; no step touches the pending write of another cell.
C23_DebounceCoalesces ==
  [][/\ \A tk \in DOMAIN saveTimers' :
          /\ saveTimers'[tk].type = "updateValue"
          /\ tk = TimerKey(saveTimers'[tk].key, saveTimers'[tk].lang)
     /\ \A tk, other \in DOMAIN saveTimers' :
          (saveTimers'[tk].key = saveTimers'[other].key
             /\ saveTimers'[tk].lang = saveTimers'[other].lang) => tk = other
     /\ Cardinality(TimersSet) + Cardinality(TimersFired) <= 1
     /\ \A tk \in TimersSet :
          /\ saveTimers'[tk].value = Cell(values', saveTimers'[tk].key, saveTimers'[tk].lang)
          /\ saveTimers'[tk].value # Cell(values, saveTimers'[tk].key, saveTimers'[tk].lang)
          /\ toHost' = toHost
     /\ \A tk \in TimersFired : toHost' = Append(toHost, saveTimers[tk])]_vars

\* the cell (a, fr) was edited twice, then (a, en), before the timer of
\* (a, fr) fired: its last value is with the host, the first was never sent,
\* and the write of (a, en) is still pending
C23_Witness ==
  /\ budget.ops = 0
  /\ DOMAIN saveTimers = {TimerKey(KeyA, EN)}
  /\ Cell(values, KeyA, FR) = <<" ">>
  /\ toHost = <<UpdateValueMsg(KeyA, FR, <<" ">>)>>
  /\ sentUpdates = {UpdateValueMsg(KeyA, FR, <<" ">>)}

(***************************************************************************)
(* Properties of the catalog after a batch run (checked under SpecBatch)   *)
(***************************************************************************)
\* the jobs a new pass over the catalog would run
JobsNow == collectTranslateAllJobs(keys, values, activeLanguages, sourceLangCode)

\* every translation the run of task t has saved is in the table, not blank
SavedNonBlank(t) ==
  \A j \in JobsWith(t, "save") :
     ~IsBlank(Cell(values, t.jobs[j].keyId, t.jobs[j].targetLangCode))

\* C24: when a translate-all run over jobs 1..n has returned and every
\* translation it saved is non-blank, collectTranslateAllJobs on the catalog
\* it left returns jobs k..n in their order when the run stopped at the
\* failure of job k, and no job when the run returned ok.
C24_NextPassReconciles ==
  LET t == tasks["ta"]
      n == Len(t.jobs)
  IN (t.pc = "done" /\ n > 0 /\ SavedNonBlank(t)) =>
        IF t.result = "ok" THEN JobsNow = <<>>
        ELSE \E k \in 1..n : /\ JobsWith(t, "fail") = {k}
                             /\ JobsNow = SubSeq(t.jobs, k, n)

\* a run of three jobs that saved a translation and stopped at job 2
C24_Witness ==
  /\ tasks["ta"].pc = "done"
  /\ Len(tasks["ta"].jobs) = 3
  /\ JobsWith(tasks["ta"], "fail") = {2}
  /\ SavedNonBlank(tasks["ta"])
  /\ Len(JobsNow) = 2

(***************************************************************************)
(* Properties of the estimates (checked under Spec)                        *)
(***************************************************************************)
RECURSIVE SumOfSourceTokens(_)
SumOfSourceTokens(jobs) ==
  IF jobs = <<>> THEN 0
  ELSE estimateTokenCount(Head(jobs).sourceText) + SumOfSourceTokens(Tail(jobs))

\* what C25 says of one state
EstimatesAgree ==
  LET jobs == collectTranslateAllJobs(keys, values, activeLanguages, sourceLangCode)
  IN /\ translateAllEstimate = Len(jobs)
     /\ translateAllEstimateTokens.missingCount = Len(jobs)
     /\ translateAllEstimateTokens.completionTokens = SumOfSourceTokens(jobs)
     /\ pendingEstimate = translateAllEstimateTokens

\* C25: in every state the translate-all estimate counts the jobs
\* collectTranslateAllJobs returns for the catalog, its completion tokens are
\* the sum of estimateTokenCount over the jobs' source texts, and the
\* pending estimate of Settings has the same count, prompt tokens and
\* completion tokens; a run that starts reports this count as its total.
C25_EstimatesAgree ==
  /\ []EstimatesAgree
  /\ [][tasks'["ta"].jobs # tasks["ta"].jobs =>
          tasks'["ta"].trace[1] = Ev("progress", 0, 0, translateAllEstimate)]_vars

\* three languages, two cells of key a to translate
C25_Witness ==
  /\ Len(languages) = 3
  /\ translateAllEstimateTokens.missingCount = 2
  /\ translateAllEstimateTokens.completionTokens = 2
  /\ pendingEstimate.promptTokens > 0

(***************************************************************************)
(* The translate-all run under fair scheduling: a pending request is       *)
(* answered (resolved or rejected), the timer of sleep(300) fires, and the *)
(* host handles the messages posted to it                                  *)
(***************************************************************************)
ProviderAnswers ==
  \/ \E text \in ProviderTexts : ProviderOk("ta", text)
  \/ ProviderFail("ta")

SpecBatchFair ==
  /\ InitBatch
  /\ [][NextBatch]_vars
  /\ WF_vars(ProviderAnswers)
  /\ WF_vars(SleepDone)
  /\ WF_vars(HostReceive)

\* the job numbers of the events `e` of a trace, in order
EventsOf(trace, e) ==
  LET hits == SelectSeq(trace, LAMBDA ev : ev.e = e)
  IN [i \in 1..Len(hits) |-> hits[i].i]

\* { ok: true }: every job was called, in order, and the last report is (n, n)
ReturnedOk(t) ==
  LET n == Len(t.jobs)
  IN /\ t.pc = "done"
     /\ n > 0
     /\ EventsOf(t.trace, "call") = [i \in 1..n |-> i]
     /\ EventsOf(t.trace, "fail") = <<>>
     /\ t.trace[Len(t.trace)] = Ev("progress", n, n, n)

\* { ok: false, error }: the run stopped at its only failure, job k, after the
\* calls of jobs 1..k and nothing but the report (k, n) after the failure
ReturnedError(t) ==
  LET n == Len(t.jobs)
      k == Len(EventsOf(t.trace, "call"))
  IN /\ t.pc = "done"
     /\ k \in 1..n
     /\ EventsOf(t.trace, "call") = [i \in 1..k |-> i]
     /\ EventsOf(t.trace, "fail") = <<k>>
     /\ EventsOf(t.trace, "save") = [i \in 1..(k - 1) |-> i]
     /\ t.trace[Len(t.trace) - 1] = Ev("fail", k, 0, 0)
     /\ t.trace[Len(t.trace)] = Ev("progress", k, k, n)

\* C26: provided every provider call is answered, a translate-all run that
\* started returns: with ok only after the calls of all n jobs were made, in
\* order, the last progress report being (n, n), or with the translation
\* error at the first failing job; it does not stay in the delay between two
\* jobs.
C26_BatchRunReturns ==
  /\ [](tasks["ta"].result = "ok" => ReturnedOk(tasks["ta"]))
  /\ [](tasks["ta"].result = "translationFailed" => ReturnedError(tasks["ta"]))
  /\ (Running(tasks["ta"]) ~> tasks["ta"].pc = "done")
  /\ (tasks["ta"].pc = "sleep" ~> tasks["ta"].pc = "call")

C26_Witness ==
  /\ tasks["ta"].result = "ok"
  /\ Len(tasks["ta"].jobs) = 3
  /\ Len(EventsOf(tasks["ta"].trace, "sleep")) = 2

(***************************************************************************)
(* The files against the table of the webview (checked under SpecEdit)     *)
(***************************************************************************)
\* no write is pending in a timer and none is on its way to the host
Quiescent == saveTimers = EmptyMap /\ toHost = <<>>

\* the value a load reads from the files for the cell
FileValue(keyId, langCode) ==
  Cell(readI18nData(files, config, hostReport).values, keyId, langCode)

\* C27: once every debounce timer has fired and the host has processed every
\* updateValue message, each cell that was written holds in its file the
\* value the webview holds for it.
C27_FilesConverge ==
  Quiescent =>
    \A m \in sentUpdates : FileValue(m.key, m.lang) = Cell(values, m.key, m.lang)

(***************************************************************************)
(* The editor's text field during 'translate missing' (checked under Spec) *)
(***************************************************************************)
\* the step saved the translation of the current job of handleTranslateMissing
MissingJobSaved ==
  /\ tasks["eb"].pc = "call"
  /\ tasks'["eb"].done = tasks["eb"].done + 1

\* C28: while the editor stays open on the key, a job of 'translate missing'
\* whose target is not the open language leaves the editor's text field as
\* it was, so text typed for the open language and not saved is still there.
C28_FieldKeptByOtherTargets ==
  [][(/\ MissingJobSaved
      /\ tasks["eb"].mounted
      /\ ui.currentView = "editor"
      /\ ui.editorKey = tasks["eb"].jobs[tasks["eb"].index].keyId
      /\ ui.editorLang # tasks["eb"].jobs[tasks["eb"].index].targetLangCode)
     => ui'.value = ui.value]_vars

(***************************************************************************)
(* Deleting a key (checked under Spec)                                     *)
(***************************************************************************)
\* the host takes the 'deleteKey' message at the head of its queue
DeleteKeyHandled ==
  /\ toHost # <<>>
  /\ Head(toHost).type = "deleteKey"
  /\ toHost' = Tail(toHost)

\* C29: when the host has handled the 'deleteKey' message of handleDeleteKey(k),
\* no language file holds k any more: a load of the folder does not return k.
C29_DeleteIsPersisted ==
  [][DeleteKeyHandled =>
       Head(toHost).key \notin Range(readI18nData(files', config', hostReport').keys)]_vars

(***************************************************************************)
(* The token report: usages are folded into the empty report, by the host  *)
(* (updateTokenReport) and by the webview (applyTokenUsage)                *)
(***************************************************************************)
\* folds into each of the two reports
MaxFolds == 3

OtherModel == <<"n">>

\* the usages a provider answer may carry
FoldUsages ==
  [promptTokens : {1}, completionTokens : {1}, totalTokens : {0, 2},
   model : {ModelName, OtherModel}, targetLangCode : {EN, FR}]

InitFold ==
  /\ files = DirOne
  /\ config = [sourceLanguage |-> EN, openaiApiKey |-> <<"k">>]
  /\ hostReport = EMPTY_TOKEN_REPORT
  /\ LET payload == readI18nData(files, config, hostReport)
     IN /\ Shows(payload)
        /\ loaded = <<[fs |-> files, payload |-> payload]>>
        /\ keys = payload.keys
        /\ values = payload.values
  /\ ui = [InitialUi EXCEPT !.currentView = "list"]
  /\ saveTimers = EmptyMap
  /\ tasks = [kind \in TaskKinds |-> IdleTask]
  /\ toHost = <<>>
  /\ toWebview = <<>>
  /\ sentUpdates = {}
  /\ budget = [ops |-> MaxFolds, calls |-> MaxFolds, gestures |-> 0]

\* host: case 'recordTokenUsage' folds the usage (budget.ops folds are left)
FoldHost(usage) ==
  /\ Spend(1, 0)
  /\ hostReport' = updateTokenReport(hostReport, usage)
  /\ UNCHANGED <<webviewVars, toHost, toWebview, files, config, sentUpdates, loaded>>

\* webview: handleRecordTokenUsage folds the usage (budget.calls folds are left)
FoldWebview(usage) ==
  /\ Spend(0, 1)
  /\ tokenReport' = applyTokenUsage(tokenReport, usage)
  /\ UNCHANGED <<catalogVars, openAiApiKey, statusCode, ui, saveTimers, tasks,
                 toHost, toWebview, hostVars, sentUpdates, loaded>>

NextFold ==
  \/ \E usage \in FoldUsages : FoldHost(usage)
  \/ \E usage \in FoldUsages : FoldWebview(usage)

SpecFold == InitFold /\ [][NextFold]_vars

\* the sum of the counts of a per-model or per-language map
RECURSIVE SumOfCounts(_)
SumOfCounts(map) ==
  IF DOMAIN map = {} THEN 0
  ELSE LET k == CHOOSE x \in DOMAIN map : TRUE
       IN map[k] + SumOfCounts(Remove(map, k))

\* the report is balanced after `folds` folds
Balanced(report, folds) ==
  /\ SumOfCounts(report.perModel) = report.totalTokens
  /\ SumOfCounts(report.perLanguage) = report.totalTokens
  /\ report.requests = folds

\* C30: starting from the empty report, after any sequence of folds the
\* per-model counts and the per-language counts each sum to totalTokens and
\* requests is the number of folds, in the host's report and in the webview's.
C30_ReportBalanced ==
  /\ Balanced(hostReport, MaxFolds - budget.ops)
  /\ Balanced(tokenReport, MaxFolds - budget.calls)

\* both reports took all their folds, over two models and two languages
C30_Witness ==
  /\ budget.ops = 0 /\ budget.calls = 0
  /\ DOMAIN hostReport.perModel = {ModelName, OtherModel}
  /\ DOMAIN tokenReport.perLanguage = {EN, FR}
  /\ tokenReport.perLanguage[FR] = 4
  /\ hostReport.totalTokens = 4
====
